---- MODULE Spec2Model ----
(***************************************************************************)
(* A model of the text document engine of Extension/ui/disassembly:        *)
(* TextModel (model/textModel.ts), its two deferred emitters and the       *)
(* decoration bookkeeping.  Text is a flat sequence of UTF-16 code units;  *)
(* the line feed (10) is the only end-of-line sequence of the buffer.      *)
(* The piece-tree buffer, the interval tree, Range/Position and Emitter    *)
(* are imported by textModel.ts but are not part of the sources at hand:   *)
(* they are modelled from the design document and from the declarations    *)
(* in model.ts.                                                            *)
(***************************************************************************)
EXTENDS Integers, Sequences, FiniteSets, TLC

VARIABLES
    text,             \* TextModel._buffer: the document as a sequence of code units
    decorations,      \* TextModel._decorations: id -> node (start, end, stickiness, ownerId)
    lastDecorationId, \* TextModel._lastDecorationId
    cDeferredCnt,     \* DidChangeContentEmitter._deferredCnt
    cDeferredEvent,   \* DidChangeContentEmitter._deferredEvent (NoEvent = null)
    dDeferredCnt,     \* DidChangeDecorationsEmitter._deferredCnt
    dShouldFire,      \* DidChangeDecorationsEmitter._shouldFire
    stack,            \* listener invocations still to run, innermost first
    running,          \* the content listener whose callback runs now, or "none"
    views,            \* listener -> the text that listener rebuilt from its events
    emitted,          \* the last content event handed to the two emitters (NoEvent = none)
    scope,            \* events fired and emitted since the outermost content scope opened
    dEmitted,         \* decorations events emitted since the outside caller's operation began
    steps,            \* number of applyEdits calls so far
    isDisposed,       \* TextModel._isDisposed
    versionId,        \* what getVersionId() returns: the version of the document
    attachedEditorCount, \* TextModel._attachedEditorCount
    log,              \* since the outside caller's applyEdits began: the events fired
                      \* after a mutation and the listener calls made, in order
    call              \* the last operation, its inputs and what it returned

vars == << text, decorations, lastDecorationId, cDeferredCnt, cDeferredEvent,
           dDeferredCnt, dShouldFire, stack, running, views, emitted, scope,
           dEmitted, steps, isDisposed, versionId, attachedEditorCount, log, call >>

----------------------------------------------------------------------------
(* Bounds of the model. *)

MaxLen == 3

\* code units: 'a', a high surrogate (U+D83D), a low surrogate (U+DE00), line feed
Alphabet == {97, 55357, 56832, 10}

DocsUpTo(n) == UNION { [1..k -> Alphabet] : k \in 0..n }

Min(a, b) == IF a < b THEN a ELSE b

Max(a, b) == IF a > b THEN a ELSE b

NoCall == [op |-> "none"]

----------------------------------------------------------------------------
(* The text buffer (ITextBuffer / IReadonlyTextBuffer of model.ts). *)

isHighSurrogate(charCode) == 55296 <= charCode /\ charCode <= 56319

isLowSurrogate(charCode) == 56320 <= charCode /\ charCode <= 57343

\* 1-based indices of the line feeds of t
EolIndices(t) == { i \in 1..Len(t) : t[i] = 10 }

getLength(t) == Len(t)

getLineCount(t) == Cardinality(EolIndices(t)) + 1

\* offset at which line n starts
LineStartOffset(t, n) ==
    IF n = 1 THEN 0
    ELSE CHOOSE i \in EolIndices(t) :
            Cardinality({ j \in EolIndices(t) : j < i }) = n - 2

\* offset just after the last character of line n (its line feed excluded)
LineEndOffset(t, n) ==
    IF n = getLineCount(t) THEN Len(t) ELSE LineStartOffset(t, n + 1) - 1

getLineLength(t, n) == LineEndOffset(t, n) - LineStartOffset(t, n)

getLineContent(t, n) == SubSeq(t, LineStartOffset(t, n) + 1, LineEndOffset(t, n))

getLineCharCode(t, n, index) == t[LineStartOffset(t, n) + index + 1]

bufferGetOffsetAt(t, lineNumber, column) == LineStartOffset(t, lineNumber) + column - 1

Position(lineNumber, column) == [lineNumber |-> lineNumber, column |-> column]

bufferGetPositionAt(t, offset) ==
    LET ln == 1 + Cardinality({ i \in EolIndices(t) : i <= offset })
    IN  Position(ln, offset - LineStartOffset(t, ln) + 1)

\* new Range(...): the constructor orders its two ends
Range(sl, sc, el, ec) ==
    IF sl > el \/ (sl = el /\ sc > ec)
    THEN [startLineNumber |-> el, startColumn |-> ec, endLineNumber |-> sl, endColumn |-> sc]
    ELSE [startLineNumber |-> sl, startColumn |-> sc, endLineNumber |-> el, endColumn |-> ec]

\* a plain IRange object literal: no constructor runs
IRange(sl, sc, el, ec) ==
    [startLineNumber |-> sl, startColumn |-> sc, endLineNumber |-> el, endColumn |-> ec]

getRangeAt(t, offset, length) ==
    LET s == bufferGetPositionAt(t, offset)
        e == bufferGetPositionAt(t, offset + length)
    IN  Range(s.lineNumber, s.column, e.lineNumber, e.column)

----------------------------------------------------------------------------
(* TextModel: position and range validation. *)

Relaxed == "Relaxed"

SurrogatePairs == "SurrogatePairs"

getLineMaxColumn(t, lineNumber) == getLineLength(t, lineNumber) + 1

_isValidPosition(t, lineNumber, column, validationType) ==
    IF lineNumber < 1 \/ column < 1 THEN FALSE
    ELSE IF lineNumber > getLineCount(t) THEN FALSE
    ELSE IF column = 1 THEN TRUE
    ELSE IF column > getLineMaxColumn(t, lineNumber) THEN FALSE
    ELSE IF validationType = SurrogatePairs
            /\ isHighSurrogate(getLineCharCode(t, lineNumber, column - 2)) THEN FALSE
    ELSE TRUE

_validatePosition(t, lineNumber, column, validationType) ==
    LET lineCount == getLineCount(t) IN
    IF lineNumber < 1 THEN Position(1, 1)
    ELSE IF lineNumber > lineCount THEN Position(lineCount, getLineMaxColumn(t, lineCount))
    ELSE IF column <= 1 THEN Position(lineNumber, 1)
    ELSE IF column >= getLineMaxColumn(t, lineNumber)
         THEN Position(lineNumber, getLineMaxColumn(t, lineNumber))
    ELSE IF validationType = SurrogatePairs
            /\ isHighSurrogate(getLineCharCode(t, lineNumber, column - 2))
         THEN Position(lineNumber, column - 1)
    ELSE Position(lineNumber, column)

\* isPosition: the argument is an instance of Position (the allocation-free path)
validatePosition(t, position, isPosition) ==
    IF isPosition /\ _isValidPosition(t, position.lineNumber, position.column, SurrogatePairs)
    THEN position
    ELSE _validatePosition(t, position.lineNumber, position.column, SurrogatePairs)

charCodeBeforeStart(t, startLineNumber, startColumn) ==
    IF startColumn > 1 THEN getLineCharCode(t, startLineNumber, startColumn - 2) ELSE 0

charCodeBeforeEnd(t, endLineNumber, endColumn) ==
    IF endColumn > 1 /\ endColumn <= getLineLength(t, endLineNumber)
    THEN getLineCharCode(t, endLineNumber, endColumn - 2) ELSE 0

_isValidRange(t, range, validationType) ==
    IF ~_isValidPosition(t, range.startLineNumber, range.startColumn, Relaxed) THEN FALSE
    ELSE IF ~_isValidPosition(t, range.endLineNumber, range.endColumn, Relaxed) THEN FALSE
    ELSE IF validationType = SurrogatePairs
         THEN /\ ~isHighSurrogate(charCodeBeforeStart(t, range.startLineNumber, range.startColumn))
              /\ ~isHighSurrogate(charCodeBeforeEnd(t, range.endLineNumber, range.endColumn))
    ELSE TRUE

\* validateRange without the case of the collapsed range (lines 775-778 left out)
validateRange_expanding(t, range, isRange) ==
    IF isRange /\ _isValidRange(t, range, SurrogatePairs) THEN range
    ELSE
    LET start == _validatePosition(t, range.startLineNumber, range.startColumn, Relaxed)
        end == _validatePosition(t, range.endLineNumber, range.endColumn, Relaxed)
        startInsideSurrogatePair ==
            isHighSurrogate(charCodeBeforeStart(t, start.lineNumber, start.column))
        endInsideSurrogatePair ==
            isHighSurrogate(charCodeBeforeEnd(t, end.lineNumber, end.column))
    IN  IF ~startInsideSurrogatePair /\ ~endInsideSurrogatePair
        THEN Range(start.lineNumber, start.column, end.lineNumber, end.column)
        ELSE IF startInsideSurrogatePair /\ endInsideSurrogatePair
        THEN Range(start.lineNumber, start.column - 1, end.lineNumber, end.column + 1)
        ELSE IF startInsideSurrogatePair
        THEN Range(start.lineNumber, start.column - 1, end.lineNumber, end.column)
        ELSE Range(start.lineNumber, start.column, end.lineNumber, end.column + 1)

\* isRange: the argument is an instance of Range (and not a Selection)
validateRange(t, range, isRange) ==
    IF isRange /\ _isValidRange(t, range, SurrogatePairs) THEN range
    ELSE
    LET start == _validatePosition(t, range.startLineNumber, range.startColumn, Relaxed)
        end == _validatePosition(t, range.endLineNumber, range.endColumn, Relaxed)
        startLineNumber == start.lineNumber
        startColumn == start.column
        endLineNumber == end.lineNumber
        endColumn == end.column
        startInsideSurrogatePair ==
            isHighSurrogate(charCodeBeforeStart(t, startLineNumber, startColumn))
        endInsideSurrogatePair ==
            isHighSurrogate(charCodeBeforeEnd(t, endLineNumber, endColumn))
    IN  IF ~startInsideSurrogatePair /\ ~endInsideSurrogatePair
        THEN Range(startLineNumber, startColumn, endLineNumber, endColumn)
        ELSE IF startLineNumber = endLineNumber /\ startColumn = endColumn
        THEN Range(startLineNumber, startColumn - 1, endLineNumber, endColumn - 1)
        ELSE IF startInsideSurrogatePair /\ endInsideSurrogatePair
        THEN Range(startLineNumber, startColumn - 1, endLineNumber, endColumn + 1)
        ELSE IF startInsideSurrogatePair
        THEN Range(startLineNumber, startColumn - 1, endLineNumber, endColumn)
        ELSE Range(startLineNumber, startColumn, endLineNumber, endColumn + 1)

_validateRangeRelaxedNoAllocations(t, range, isRange) ==
    LET linesCount == getLineCount(t)
        clamp(ln, col) ==
            IF ln < 1 THEN Position(1, 1)
            ELSE IF ln > linesCount THEN Position(linesCount, getLineMaxColumn(t, linesCount))
            ELSE IF col <= 1 THEN Position(ln, 1)
            ELSE IF col >= getLineMaxColumn(t, ln) THEN Position(ln, getLineMaxColumn(t, ln))
            ELSE Position(ln, col)
        s == clamp(range.startLineNumber, range.startColumn)
        e == clamp(range.endLineNumber, range.endColumn)
    IN  IF /\ range.startLineNumber = s.lineNumber /\ range.startColumn = s.column
           /\ range.endLineNumber = e.lineNumber /\ range.endColumn = e.column
           /\ isRange
        THEN range
        ELSE Range(s.lineNumber, s.column, e.lineNumber, e.column)

\* getOffsetAt that validates with SurrogatePairs instead of Relaxed
getOffsetAt_strict(t, rawPosition) ==
    LET position == _validatePosition(t, rawPosition.lineNumber, rawPosition.column,
                                      SurrogatePairs)
    IN  bufferGetOffsetAt(t, position.lineNumber, position.column)

getOffsetAt(t, rawPosition) ==
    LET position == _validatePosition(t, rawPosition.lineNumber, rawPosition.column, Relaxed)
    IN  bufferGetOffsetAt(t, position.lineNumber, position.column)

getPositionAt(t, rawOffset) ==
    LET offset == Min(getLength(t), Max(0, rawOffset))
    IN  bufferGetPositionAt(t, offset)

\* the position lies between the high and the low half of a surrogate pair
InsideSurrogatePair(t, lineNumber, column) ==
    /\ column > 1
    /\ column <= getLineLength(t, lineNumber)
    /\ isHighSurrogate(getLineCharCode(t, lineNumber, column - 2))
    /\ isLowSurrogate(getLineCharCode(t, lineNumber, column - 1))

IsValidPositionOf(t, p) ==
    /\ 1 <= p.lineNumber /\ p.lineNumber <= getLineCount(t)
    /\ 1 <= p.column /\ p.column <= getLineMaxColumn(t, p.lineNumber)

\* every high surrogate of t is followed by a low one, every low one preceded by a high one
WellFormed(t) ==
    \A i \in 1..Len(t) :
        /\ isHighSurrogate(t[i]) => (i < Len(t) /\ isLowSurrogate(t[i + 1]))
        /\ isLowSurrogate(t[i]) => (i > 1 /\ isHighSurrogate(t[i - 1]))

----------------------------------------------------------------------------
(* Edit operations and the buffer's applyEdits. *)

\* an IIdentifiedSingleEditOperation as a caller writes it.  text: the empty
\* sequence stands for both null and "" (the buffer treats them alike);
\* forceMoveMarkers is "true", "false" or "undefined" (the field is optional).
EditOperation(range, isRange, txt, forceMoveMarkers) ==
    [range |-> range, isRange |-> isRange, text |-> txt,
     forceMoveMarkers |-> forceMoveMarkers, isValidAnnotated |-> FALSE]

\* an operation that is an instance of ValidAnnotatedEditOperation already
ValidAnnotatedEditOperation(range, txt, forceMoveMarkers) ==
    [range |-> range, isRange |-> TRUE, text |-> txt,
     forceMoveMarkers |-> forceMoveMarkers, isValidAnnotated |-> TRUE]

\* rawOperation.forceMoveMarkers || false
\* rawOperation.forceMoveMarkers || true
forceMoveMarkersOrTrue(flag) == (flag # "false")

forceMoveMarkersOrFalse(flag) == (flag = "true")

_validateEditOperation(t, rawOperation) ==
    IF rawOperation.isValidAnnotated
    THEN [range |-> rawOperation.range, text |-> rawOperation.text,
          forceMoveMarkers |-> (rawOperation.forceMoveMarkers = "true")]
    ELSE [range |-> validateRange(t, rawOperation.range, rawOperation.isRange),
          text |-> rawOperation.text,
          forceMoveMarkers |-> forceMoveMarkersOrFalse(rawOperation.forceMoveMarkers)]

_validateEditOperations(t, rawOperations) ==
    [i \in 1..Len(rawOperations) |-> _validateEditOperation(t, rawOperations[i])]

RangeStartOffset(t, range) == bufferGetOffsetAt(t, range.startLineNumber, range.startColumn)

RangeEndOffset(t, range) == bufferGetOffsetAt(t, range.endLineNumber, range.endColumn)

\* the caller's contract: the validated ranges are pairwise apart (overlap is undefined)
NonOverlapping(t, operations) ==
    \A i, j \in 1..Len(operations) :
        i # j => \/ RangeEndOffset(t, operations[i].range) < RangeStartOffset(t, operations[j].range)
                 \/ RangeEndOffset(t, operations[j].range) < RangeStartOffset(t, operations[i].range)

\* indices of operations, the one with the greatest start offset first
RECURSIVE sortOpsDescending(_, _, _)
sortOpsDescending(t, operations, rest) ==
    IF rest = {} THEN << >>
    ELSE LET i == CHOOSE k \in rest :
                    \A j \in rest : RangeStartOffset(t, operations[j].range)
                                      <= RangeStartOffset(t, operations[k].range)
         IN  << i >> \o sortOpsDescending(t, operations, rest \ {i})

ReplaceAt(t, offset, length, txt) ==
    SubSeq(t, 1, offset) \o txt \o SubSeq(t, offset + length + 1, Len(t))

IsNoOp(t, operation) ==
    /\ RangeStartOffset(t, operation.range) = RangeEndOffset(t, operation.range)
    /\ Len(operation.text) = 0

\* the offsets of the operations are those of the text before the call (t0)
RECURSIVE applySorted(_, _, _, _)
applySorted(t0, t, operations, order) ==
    IF order = << >> THEN t
    ELSE LET op == operations[Head(order)]
             off == RangeStartOffset(t0, op.range)
             len == RangeEndOffset(t0, op.range) - off
         IN  applySorted(t0, ReplaceAt(t, off, len, op.text), operations, Tail(order))

RECURSIVE contentChangesOf(_, _, _)
contentChangesOf(t0, operations, order) ==
    IF order = << >> THEN << >>
    ELSE LET op == operations[Head(order)]
             off == RangeStartOffset(t0, op.range)
             len == RangeEndOffset(t0, op.range) - off
             rest == contentChangesOf(t0, operations, Tail(order))
         IN  IF IsNoOp(t0, op) THEN rest
             ELSE << [range |-> op.range, rangeOffset |-> off, rangeLength |-> len,
                      text |-> op.text, forceMoveMarkers |-> op.forceMoveMarkers] >> \o rest

\* by how much the operations 1..n that start before offset off change the length
RECURSIVE growthBefore(_, _, _, _)
growthBefore(t0, operations, off, n) ==
    IF n = 0 THEN 0
    ELSE LET s == RangeStartOffset(t0, operations[n].range)
             e == RangeEndOffset(t0, operations[n].range)
         IN  (IF s < off THEN Len(operations[n].text) - (e - s) ELSE 0)
             + growthBefore(t0, operations, off, n - 1)

\* the operation that undoes operations[i], with its range in the text after the call
reverseEditOf(t0, t1, operations, i) ==
    LET op == operations[i]
        off == RangeStartOffset(t0, op.range)
        len == RangeEndOffset(t0, op.range) - off
        newOff == off + growthBefore(t0, operations, off, Len(operations))
    IN  [range |-> getRangeAt(t1, newOff, Len(op.text)),
         text |-> SubSeq(t0, off + 1, off + len)]

\* ITextBuffer.applyEdits: the new text, the changes (last range first) and the reverse edits
bufferApplyEdits(t, operations) ==
    LET order == sortOpsDescending(t, operations, 1..Len(operations))
        t1 == applySorted(t, t, operations, order)
    IN  [text |-> t1,
         changes |-> contentChangesOf(t, operations, order),
         reverseEdits |-> [i \in 1..Len(operations) |-> reverseEditOf(t, t1, operations, i)]]

----------------------------------------------------------------------------
(* Decorations: the interval tree's acceptReplace. *)

AlwaysGrowsWhenTypingAtEdges == 0

NeverGrowsWhenTypingAtEdges == 1

GrowsOnlyWhenTypingBefore == 2

GrowsOnlyWhenTypingAfter == 3

Stickiness == { AlwaysGrowsWhenTypingAtEdges, NeverGrowsWhenTypingAtEdges,
                GrowsOnlyWhenTypingBefore, GrowsOnlyWhenTypingAfter }

\* node.range === null (lines and columns are numbered from 1)
NullRange == IRange(0, 0, 0, 0)

\* an IntervalNode: its owner, its offsets and the stickiness of its options
IntervalNode(ownerId, start, end, stickiness) ==
    [ownerId |-> ownerId, start |-> start, end |-> end, stickiness |-> stickiness,
     cachedVersionId |-> 0, cachedAbsoluteStart |-> start, cachedAbsoluteEnd |-> end,
     range |-> NullRange]

\* IntervalNode.reset(versionId, start, end, range): the offsets, and the range cached
\* for that version
reset(node, cachedVersionId, start, end, range) ==
    [node EXCEPT !.start = start, !.end = end, !.cachedVersionId = cachedVersionId,
                 !.cachedAbsoluteStart = start, !.cachedAbsoluteEnd = end,
                 !.range = range]

\* IntervalTree.resolveNode(node, versionId): the absolute offsets are cached anew, and
\* the cached range is dropped when it was cached for another version
resolveNode(node, cachedVersionId) ==
    [node EXCEPT !.range = IF node.cachedVersionId # cachedVersionId THEN NullRange ELSE @,
                 !.cachedVersionId = cachedVersionId,
                 !.cachedAbsoluteStart = node.start,
                 !.cachedAbsoluteEnd = node.end]

\* whether a marker at markerOffset stays where it is for an edit boundary at checkOffset
adjustMarkerBeforeColumn(markerOffset, markerStickToPreviousCharacter, checkOffset, moveSemantics) ==
    IF markerOffset < checkOffset THEN TRUE
    ELSE IF markerOffset > checkOffset THEN FALSE
    ELSE IF moveSemantics = "ForceMove" THEN FALSE
    ELSE IF moveSemantics = "ForceStay" THEN TRUE
    ELSE markerStickToPreviousCharacter

\* one marker of a node through the replacement of [start, end) by textLength characters
markerAcceptEdit(marker, stickToPrevious, start, end, textLength, forceMoveMarkers) ==
    LET deletingCnt == end - start
        insertingCnt == textLength
        commonLength == Min(deletingCnt, insertingCnt)
        sem1 == IF forceMoveMarkers THEN "ForceMove"
                ELSE IF deletingCnt > 0 THEN "ForceStay" ELSE "MarkerDefined"
        sem2 == IF deletingCnt > insertingCnt THEN "ForceMove" ELSE "MarkerDefined"
        sem3 == IF forceMoveMarkers THEN "ForceMove" ELSE "MarkerDefined"
    IN  IF adjustMarkerBeforeColumn(marker, stickToPrevious, start, sem1) THEN marker
        ELSE IF commonLength > 0 /\ ~forceMoveMarkers
                /\ adjustMarkerBeforeColumn(marker, stickToPrevious, start + commonLength, sem2)
             THEN marker
        ELSE IF adjustMarkerBeforeColumn(marker, stickToPrevious, end, sem3)
             THEN start + insertingCnt
        ELSE Max(0, marker + (insertingCnt - deletingCnt))

nodeAcceptEdit(node, start, end, textLength, forceMoveMarkers) ==
    LET startStickToPreviousCharacter ==
            node.stickiness \in {AlwaysGrowsWhenTypingAtEdges, GrowsOnlyWhenTypingBefore}
        endStickToPreviousCharacter ==
            node.stickiness \in {NeverGrowsWhenTypingAtEdges, GrowsOnlyWhenTypingBefore}
        newStart == markerAcceptEdit(node.start, startStickToPreviousCharacter,
                                     start, end, textLength, forceMoveMarkers)
        newEnd == markerAcceptEdit(node.end, endStickToPreviousCharacter,
                                   start, end, textLength, forceMoveMarkers)
    IN  [node EXCEPT !.start = newStart, !.end = Max(newStart, newEnd)]

\* IntervalTree.acceptReplace: every node through one replacement
acceptReplace(nodes, offset, length, textLength, forceMoveMarkers) ==
    [id \in DOMAIN nodes |->
        nodeAcceptEdit(nodes[id], offset, offset + length, textLength, forceMoveMarkers)]

----------------------------------------------------------------------------
(* TextModel._doApplyEdits: decorations, raw line changes and the event. *)

\* number of line breaks of a replacement text
countEOL(txt) == Cardinality({ i \in 1..Len(txt) : txt[i] = 10 })

\* the call of acceptReplace with forceMoveMarkers always true
acceptChange_forced(nodes, change) ==
    acceptReplace(nodes, change.rangeOffset, change.rangeLength, Len(change.text), TRUE)

\* the call of acceptReplace with the two lengths exchanged
acceptChange_exchanged(nodes, change) ==
    acceptReplace(nodes, change.rangeOffset, Len(change.text), change.rangeLength,
                  change.forceMoveMarkers)

\* this._decorationsTree.acceptReplace(change.rangeOffset, change.rangeLength,
\*                                     change.text.length, change.forceMoveMarkers)
acceptChange(nodes, change) ==
    acceptReplace(nodes, change.rangeOffset, change.rangeLength, Len(change.text),
                  change.forceMoveMarkers)

RECURSIVE acceptChanges(_, _)
acceptChanges(nodes, changes) ==
    IF changes = << >> THEN nodes
    ELSE acceptChanges(acceptChange(nodes, Head(changes)), Tail(changes))

ModelRawLineChanged(lineNumber, detail) ==
    [changeType |-> "LineChanged", lineNumber |-> lineNumber, detail |-> detail]

ModelRawLinesDeleted(fromLineNumber, toLineNumber) ==
    [changeType |-> "LinesDeleted", fromLineNumber |-> fromLineNumber,
     toLineNumber |-> toLineNumber]

ModelRawLinesInserted(fromLineNumber, toLineNumber, detail) ==
    [changeType |-> "LinesInserted", fromLineNumber |-> fromLineNumber,
     toLineNumber |-> toLineNumber, detail |-> detail]

\* rawChangesOfChange without the two splices (lines 880-897 left out)
rawChangesOfChange_lineChangedOnly(t1, newLineCount, lineCount, change) ==
    LET startLineNumber == change.range.startLineNumber
        deletingLinesCnt == change.range.endLineNumber - startLineNumber
        insertingLinesCnt == countEOL(change.text)
        editingLinesCnt == Min(deletingLinesCnt, insertingLinesCnt)
        changeLineCountDelta == insertingLinesCnt - deletingLinesCnt
    IN  [k \in 1..(editingLinesCnt + 1) |->
            LET editLineNumber == startLineNumber + (editingLinesCnt - (k - 1))
            IN  ModelRawLineChanged(editLineNumber,
                    getLineContent(t1, newLineCount - lineCount - changeLineCountDelta
                                       + editLineNumber))]

\* the raw changes of one change; t1 is the text after the whole batch and lineCount
\* the line count before this change (changes come last range first)
rawChangesOfChange(t1, newLineCount, lineCount, change) ==
    LET startLineNumber == change.range.startLineNumber
        endLineNumber == change.range.endLineNumber
        deletingLinesCnt == endLineNumber - startLineNumber
        insertingLinesCnt == countEOL(change.text)
        editingLinesCnt == Min(deletingLinesCnt, insertingLinesCnt)
        changeLineCountDelta == insertingLinesCnt - deletingLinesCnt
        lineChanged ==
            [k \in 1..(editingLinesCnt + 1) |->
                LET editLineNumber == startLineNumber + (editingLinesCnt - (k - 1))
                    currentEditLineNumber ==
                        newLineCount - lineCount - changeLineCountDelta + editLineNumber
                IN  ModelRawLineChanged(editLineNumber,
                                        getLineContent(t1, currentEditLineNumber))]
        spliceLineNumber == startLineNumber + editingLinesCnt
        linesDeleted ==
            IF editingLinesCnt < deletingLinesCnt
            THEN << ModelRawLinesDeleted(spliceLineNumber + 1, endLineNumber) >>
            ELSE << >>
        cnt == insertingLinesCnt - editingLinesCnt
        fromLineNumber == newLineCount - lineCount - cnt + spliceLineNumber + 1
        linesInserted ==
            IF editingLinesCnt < insertingLinesCnt
            THEN << ModelRawLinesInserted(spliceLineNumber + 1,
                        startLineNumber + insertingLinesCnt,
                        [i \in 1..cnt |-> getLineContent(t1, fromLineNumber + i - 1)]) >>
            ELSE << >>
    IN  lineChanged \o linesDeleted \o linesInserted

\* rawContentChangesOf without 'lineCount += changeLineCountDelta'
RECURSIVE rawContentChangesOf_staleLineCount(_, _, _, _)
rawContentChangesOf_staleLineCount(t1, newLineCount, lineCount, changes) ==
    IF changes = << >> THEN << >>
    ELSE rawChangesOfChange(t1, newLineCount, lineCount, Head(changes))
         \o rawContentChangesOf_staleLineCount(t1, newLineCount, lineCount, Tail(changes))

RECURSIVE rawContentChangesOf(_, _, _, _)
rawContentChangesOf(t1, newLineCount, lineCount, changes) ==
    IF changes = << >> THEN << >>
    ELSE LET change == Head(changes)
             delta == countEOL(change.text)
                      - (change.range.endLineNumber - change.range.startLineNumber)
         IN  rawChangesOfChange(t1, newLineCount, lineCount, change)
             \o rawContentChangesOf(t1, newLineCount, lineCount + delta, Tail(changes))

NoEvent == [raw |-> << >>, changes |-> << >>, isNull |-> TRUE]

InternalModelContentChangeEvent(rawChanges, changes) ==
    [raw |-> rawChanges, changes |-> changes, isNull |-> FALSE]

\* the calls _doApplyEdits makes on the buffer and on the decorations tree, in program
\* order, each with the offsets of the changes it is about: acceptReplace first
doApplyEditsCalls_acceptFirst(contentChanges) ==
    [i \in 1..Len(contentChanges) |->
        [callee |-> "_decorationsTree.acceptReplace",
         rangeOffsets |-> { contentChanges[i].rangeOffset }]]
    \o << [callee |-> "_buffer.applyEdits",
           rangeOffsets |-> { contentChanges[i].rangeOffset : i \in 1..Len(contentChanges) }] >>

\* _buffer.applyEdits(rawOperations) (line 849), then one acceptReplace per content
\* change (line 863)
doApplyEditsCalls(contentChanges) ==
    << [callee |-> "_buffer.applyEdits",
        rangeOffsets |-> { contentChanges[i].rangeOffset : i \in 1..Len(contentChanges) }] >>
    \o [i \in 1..Len(contentChanges) |->
           [callee |-> "_decorationsTree.acceptReplace",
            rangeOffsets |-> { contentChanges[i].rangeOffset }]]

\* what _doApplyEdits does to the buffer and the decorations, the event it fires
\* (NoEvent when nothing changed) and what it returns
_doApplyEdits(t, nodes, operations) ==
    LET oldLineCount == getLineCount(t)
        result == bufferApplyEdits(t, operations)
        newLineCount == getLineCount(result.text)
        contentChanges == result.changes
    IN  [text |-> result.text,
         decorations |-> acceptChanges(nodes, contentChanges),
         changes |-> contentChanges,
         event |-> IF contentChanges = << >> THEN NoEvent
                   ELSE InternalModelContentChangeEvent(
                            rawContentChangesOf(result.text, newLineCount, oldLineCount,
                                                contentChanges),
                            contentChanges),
         reverseEdits |-> result.reverseEdits,
         calls |-> doApplyEditsCalls(contentChanges)]

----------------------------------------------------------------------------
(* The two deferred emitters. *)

Listeners == {"fast", "slow"}

\* InternalModelContentChangeEvent.merge: the changes of both, in order
merge(a, b) ==
    InternalModelContentChangeEvent(a.raw \o b.raw, a.changes \o b.changes)

\* DidChangeContentEmitter.fire that keeps only the last event of a scope
contentFire_keepLast(deferredCnt, deferredEvent, e) ==
    IF deferredCnt > 0
    THEN [deferredEvent |-> e, emit |-> NoEvent]
    ELSE [deferredEvent |-> deferredEvent, emit |-> e]

\* DidChangeContentEmitter.fire: the deferred event afterwards, and what is emitted now
contentFire(deferredCnt, deferredEvent, e) ==
    IF deferredCnt > 0
    THEN [deferredEvent |-> IF ~deferredEvent.isNull THEN merge(deferredEvent, e) ELSE e,
          emit |-> NoEvent]
    ELSE [deferredEvent |-> deferredEvent, emit |-> e]

\* DidChangeContentEmitter.endDeferredEmit
contentEndDeferredEmit(deferredCnt, deferredEvent) ==
    LET cnt == deferredCnt - 1
    IN  IF cnt = 0 /\ ~deferredEvent.isNull
        THEN [deferredCnt |-> cnt, deferredEvent |-> NoEvent, emit |-> deferredEvent]
        ELSE [deferredCnt |-> cnt, deferredEvent |-> deferredEvent, emit |-> NoEvent]

\* DidChangeDecorationsEmitter.endDeferredEmit: emit tells whether the event is emitted
decorationsEndDeferredEmit(deferredCnt, shouldFire) ==
    LET cnt == deferredCnt - 1
    IN  IF cnt = 0 /\ shouldFire
        THEN [deferredCnt |-> cnt, shouldFire |-> FALSE, emit |-> TRUE]
        ELSE [deferredCnt |-> cnt, shouldFire |-> shouldFire, emit |-> FALSE]

\* the two fire calls exchanged: the slow listeners first
listenerCalls_slowFirst(e) ==
    << [kind |-> "listener", listener |-> "slow", event |-> e],
       [kind |-> "listener", listener |-> "fast", event |-> e] >>

\* _fastEmitter.fire(e); _slowEmitter.fire(e): the listener calls to make, in order
listenerCalls(e) ==
    << [kind |-> "listener", listener |-> "fast", event |-> e],
       [kind |-> "listener", listener |-> "slow", event |-> e] >>

\* where control goes once the listeners have run: back into caller, which then
\* (in applyEdits) closes the decorations scope
returnTo(caller, closesDecorationsScope) ==
    [kind |-> "return", listener |-> caller, event |-> NoEvent,
     closesDecorationsScope |-> closesDecorationsScope]

\* fire(e) from caller: the fast listener is called, then the slow one, then
\* control is back in caller; the calls st that were pending come after
deliver(e, caller, closesDecorationsScope, st) ==
    listenerCalls(e) \o << returnTo(caller, closesDecorationsScope) >> \o st

NoScope == [fired |-> << >>, emits |-> 0]

\* what a listener does with an event: it replays the flat changes on its copy
RECURSIVE replay(_, _)
replay(view, changes) ==
    IF changes = << >> THEN view
    ELSE LET c == Head(changes)
             off == Min(c.rangeOffset, Len(view))
             len == Min(c.rangeLength, Len(view) - off)
         IN  replay(ReplaceAt(view, off, len, c.text), Tail(changes))

----------------------------------------------------------------------------
(* TextModel decorations: _deltaDecorationsImpl and _changeDecorationImpl. *)
(* decorations maps the number of a decoration id to its IntervalNode.     *)

\* IModelDecorationOptions.stickiness left out by the caller
StickinessUndefined == 0 - 1

\* new ModelDecorationOptions(options): options.stickiness || AlwaysGrowsWhenTypingAtEdges
_normalizeOptions(options) ==
    [stickiness |-> IF options.stickiness = StickinessUndefined
                    THEN AlwaysGrowsWhenTypingAtEdges
                    ELSE options.stickiness]

IModelDeltaDecoration(range, isRange, options) ==
    [range |-> range, isRange |-> isRange, options |-> options]

\* step (4) of _deltaDecorationsImpl: the node as initialised from newDecoration
initializedNode(t, ownerId, newDecoration) ==
    LET range == _validateRangeRelaxedNoAllocations(t, newDecoration.range,
                                                    newDecoration.isRange)
    IN  reset(IntervalNode(ownerId, 0, 0, _normalizeOptions(newDecoration.options).stickiness),
              versionId,
              bufferGetOffsetAt(t, range.startLineNumber, range.startColumn),
              bufferGetOffsetAt(t, range.endLineNumber, range.endColumn),
              range)

\* step (1): the index of the first old id that names a live node, 0 if there is none
RECURSIVE firstOldNode(_, _, _)
firstOldNode(nodes, oldDecorationsIds, i) ==
    IF i > Len(oldDecorationsIds) THEN 0
    ELSE IF oldDecorationsIds[i] \in DOMAIN nodes THEN i
    ELSE firstOldNode(nodes, oldDecorationsIds, i + 1)

withoutNode(nodes, id) == [k \in DOMAIN nodes \ {id} |-> nodes[k]]

withNode(nodes, id, node) ==
    [k \in DOMAIN nodes \cup {id} |-> IF k = id THEN node ELSE nodes[k]]

\* the loop of _deltaDecorationsImpl; result collects the ids returned so far
RECURSIVE _deltaDecorationsImpl(_, _, _, _, _, _, _)
_deltaDecorationsImpl(t, nodes, lastId, ownerId, oldDecorationsIds, newDecorations, result) ==
    IF oldDecorationsIds = << >> /\ newDecorations = << >>
    THEN [decorations |-> nodes, lastDecorationId |-> lastId, result |-> result]
    ELSE LET found == firstOldNode(nodes, oldDecorationsIds, 1)
             restOld == IF found = 0 THEN << >>
                        ELSE SubSeq(oldDecorationsIds, found + 1, Len(oldDecorationsIds))
             id == IF found = 0 THEN lastId + 1 ELSE oldDecorationsIds[found]
         IN  IF newDecorations # << >>
             THEN _deltaDecorationsImpl(t,
                      withNode(nodes, id, initializedNode(t, ownerId, Head(newDecorations))),
                      IF found = 0 THEN lastId + 1 ELSE lastId, ownerId, restOld,
                      Tail(newDecorations), Append(result, id))
             ELSE _deltaDecorationsImpl(t,
                      IF found = 0 THEN nodes ELSE withoutNode(nodes, id),
                      lastId, ownerId, restOld, << >>, result)

\* whether _deltaDecorationsImpl calls this._onDidChangeDecorations.fire()
deltaDecorationsFires(nodes, oldDecorationsIds, newDecorations) ==
    \/ newDecorations # << >>
    \/ \E i \in 1..Len(oldDecorationsIds) : oldDecorationsIds[i] \in DOMAIN nodes

\* _changeDecorationImpl with start and end offsets exchanged
_changeDecorationImpl_exchanged(t, nodes, decorationId, rawRange, isRange) ==
    IF decorationId \notin DOMAIN nodes THEN nodes
    ELSE LET range == _validateRangeRelaxedNoAllocations(t, rawRange, isRange)
         IN  [nodes EXCEPT ![decorationId] =
                 reset(@, versionId,
                       bufferGetOffsetAt(t, range.endLineNumber, range.endColumn),
                       bufferGetOffsetAt(t, range.startLineNumber, range.startColumn),
                       range)]

_changeDecorationImpl(t, nodes, decorationId, rawRange, isRange) ==
    IF decorationId \notin DOMAIN nodes THEN nodes
    ELSE LET range == _validateRangeRelaxedNoAllocations(t, rawRange, isRange)
         IN  [nodes EXCEPT ![decorationId] =
                 reset(@, versionId,
                       bufferGetOffsetAt(t, range.startLineNumber, range.startColumn),
                       bufferGetOffsetAt(t, range.endLineNumber, range.endColumn),
                       range)]

\* _setTrackedRange that never looks for the node of id: a request to set adds a
\* tracked range, a request to delete does nothing
_setTrackedRange_leaks(t, nodes, lastId, id, hasRange, newRange, newStickiness) ==
    IF ~hasRange
    THEN [decorations |-> nodes, lastDecorationId |-> lastId, result |-> << >>,
          fires |-> FALSE]
    ELSE LET r == _deltaDecorationsImpl(t, nodes, lastId, 0, << >>,
                      << IModelDeltaDecoration(newRange, TRUE,
                                               [stickiness |-> newStickiness]) >>,
                      << >>)
         IN  [decorations |-> r.decorations, lastDecorationId |-> r.lastDecorationId,
              result |-> r.result, fires |-> TRUE]

\* _setTrackedRange(id, newRange, newStickiness); id 0 stands for null, hasRange
\* tells whether newRange is a Range or null; fires: whether
\* this._onDidChangeDecorations.fire() was called (no scope is opened here)
_setTrackedRange(t, nodes, lastId, id, hasRange, newRange, newStickiness) ==
    IF id \notin DOMAIN nodes
    THEN IF ~hasRange
         THEN [decorations |-> nodes, lastDecorationId |-> lastId, result |-> << >>,
               fires |-> FALSE]
         ELSE LET r == _deltaDecorationsImpl(t, nodes, lastId, 0, << >>,
                           << IModelDeltaDecoration(newRange, TRUE,
                                                    [stickiness |-> newStickiness]) >>,
                           << >>)
              IN  [decorations |-> r.decorations, lastDecorationId |-> r.lastDecorationId,
                   result |-> r.result, fires |-> TRUE]
    ELSE IF ~hasRange
    THEN [decorations |-> withoutNode(nodes, id), lastDecorationId |-> lastId,
          result |-> << >>, fires |-> FALSE]
    ELSE LET range == _validateRangeRelaxedNoAllocations(t, newRange, TRUE)
         IN  [decorations |->
                  [nodes EXCEPT ![id] =
                      [reset(@, versionId,
                             bufferGetOffsetAt(t, range.startLineNumber, range.startColumn),
                             bufferGetOffsetAt(t, range.endLineNumber, range.endColumn),
                             range)
                       EXCEPT !.stickiness = newStickiness]],
              lastDecorationId |-> lastId, result |-> << id >>, fires |-> FALSE]

\* getDecorationRange(decorationId): the range it returns (NullRange for null) and
\* the decorations, whose node now caches that range
getDecorationRange(t, nodes, decorationId) ==
    IF decorationId \notin DOMAIN nodes
    THEN [range |-> NullRange, decorations |-> nodes]
    ELSE LET resolved == IF nodes[decorationId].cachedVersionId # versionId
                         THEN resolveNode(nodes[decorationId], versionId)
                         ELSE nodes[decorationId]
             range == IF resolved.range = NullRange
                      THEN getRangeAt(t, resolved.cachedAbsoluteStart,
                                      resolved.cachedAbsoluteEnd - resolved.cachedAbsoluteStart)
                      ELSE resolved.range
         IN  [range |-> range,
              decorations |-> [nodes EXCEPT ![decorationId] =
                                  [resolved EXCEPT !.range = range]]]

----------------------------------------------------------------------------
(* Initial values shared by every specification. *)

InitWith(docs) ==
    /\ text \in docs
    /\ decorations = << >>
    /\ lastDecorationId = 0
    /\ cDeferredCnt = 0
    /\ cDeferredEvent = NoEvent
    /\ dDeferredCnt = 0
    /\ dShouldFire = FALSE
    /\ stack = << >>
    /\ running = "none"
    /\ views = [l \in Listeners |-> text]
    /\ emitted = NoEvent
    /\ scope = NoScope
    /\ dEmitted = 0
    /\ steps = 0
    /\ isDisposed = FALSE
    /\ versionId = 1
    /\ attachedEditorCount = 0
    /\ log = << >>
    /\ call = NoCall

----------------------------------------------------------------------------
(* TextModel.applyEdits and the delivery of its events. *)

MaxSteps == 3

\* no listener is being called: the next operation comes from an outside caller
Idle == running = "none" /\ stack = << >>

\* an entry of log
Happened(kind, listener, event) == [kind |-> kind, listener |-> listener, event |-> event]

\* the decorations-changed listeners were called
DecorationsChanged == Happened("decorations", "decorations", NoEvent)

\* the rest of applyEdits once _doApplyEdits has returned r: the event is fired
\* inside the scope, then the finally block closes the content scope and the
\* decorations scope
applyEditsFinally(operations, r) ==
    LET fired == ~r.event.isNull
        cnt1 == cDeferredCnt + 1
        afterFire == IF fired THEN contentFire(cnt1, cDeferredEvent, r.event)
                     ELSE [deferredEvent |-> cDeferredEvent, emit |-> NoEvent]
        ended == contentEndDeferredEmit(cnt1, afterFire.deferredEvent)
        emits == ~ended.emit.isNull
        shouldFire == dShouldFire \/ fired
        dEnded == decorationsEndDeferredEmit(dDeferredCnt + 1, shouldFire)
        scope0 == IF cDeferredCnt = 0 THEN NoScope ELSE scope
        \* dEmitted and log count from the start of the outside caller's operation
        dEmitted0 == IF running = "none" THEN 0 ELSE dEmitted
        log0 == IF running = "none" THEN << >> ELSE log
        log1 == IF fired THEN Append(log0, Happened("mutated", "none", r.event)) ELSE log0
    IN  /\ NonOverlapping(text, operations)
        /\ steps < MaxSteps
        /\ steps' = steps + 1
        /\ text' = r.text
        /\ decorations' = r.decorations
        /\ UNCHANGED << lastDecorationId, isDisposed, versionId, attachedEditorCount >>
        /\ cDeferredCnt' = ended.deferredCnt
        /\ cDeferredEvent' = ended.deferredEvent
        /\ scope' = [fired |-> IF fired THEN Append(scope0.fired, r.event) ELSE scope0.fired,
                     emits |-> scope0.emits + (IF emits THEN 1 ELSE 0)]
        /\ UNCHANGED views
        /\ IF emits /\ ~isDisposed
           THEN \* the listeners run before the decorations scope is closed
                /\ emitted' = ended.emit
                /\ stack' = deliver(ended.emit, running, TRUE, stack)
                /\ running' = "emitter"
                /\ dDeferredCnt' = dDeferredCnt + 1
                /\ dShouldFire' = shouldFire
                /\ dEmitted' = dEmitted0
                /\ log' = log1
           ELSE /\ UNCHANGED << emitted, stack, running >>
                /\ dDeferredCnt' = dEnded.deferredCnt
                /\ dShouldFire' = dEnded.shouldFire
                /\ dEmitted' = dEmitted0 + (IF dEnded.emit THEN 1 ELSE 0)
                /\ log' = IF dEnded.emit THEN Append(log1, DecorationsChanged) ELSE log1

applyEditsValidated(operations) ==
    applyEditsFinally(operations, _doApplyEdits(text, decorations, operations))

\* validateRange throws 'Model is disposed!' (_assertNotDisposed) for the first
\* operation that is not already a ValidAnnotatedEditOperation
validationThrows_never(disposed, rawOperations) == FALSE

validationThrows(disposed, rawOperations) ==
    disposed /\ \E i \in 1..Len(rawOperations) : ~rawOperations[i].isValidAnnotated

\* applyEdits when _validateEditOperations throws: the two scopes are opened, and
\* closed by the finally block; the emitters of a disposed model have no listeners
applyEditsThrown ==
    LET ended == contentEndDeferredEmit(cDeferredCnt + 1, cDeferredEvent)
        dEnded == decorationsEndDeferredEmit(dDeferredCnt + 1, dShouldFire)
    IN  /\ steps < MaxSteps
        /\ steps' = steps + 1
        /\ cDeferredCnt' = ended.deferredCnt
        /\ cDeferredEvent' = ended.deferredEvent
        /\ dDeferredCnt' = dEnded.deferredCnt
        /\ dShouldFire' = dEnded.shouldFire
        /\ UNCHANGED << text, decorations, lastDecorationId, stack, running, views,
                        emitted, scope, dEmitted, isDisposed, versionId, attachedEditorCount, log >>

\* applyEdits(rawOperations) called by whoever runs now: an outside caller (Idle)
\* or the listener `running`.  Everything but `call`.
applyEdits(rawOperations) ==
    IF validationThrows(isDisposed, rawOperations)
    THEN applyEditsThrown
    ELSE applyEditsValidated(_validateEditOperations(text, rawOperations))

\* what the last applyEdits was given, found and returned
applyEditsRecord(rawOperations, r) ==
    [op |-> "applyEdits", rawOperations |-> rawOperations, changes |-> r.changes,
     reverseEdits |-> r.reverseEdits, textBefore |-> text,
     decorationsBefore |-> decorations, calls |-> r.calls,
     versionBefore |-> versionId]

applyEditsCall(rawOperations) ==
    applyEditsRecord(rawOperations,
        _doApplyEdits(text, decorations, _validateEditOperations(text, rawOperations)))

\* the next pending call of the emitter: a listener receives its event, or control
\* returns to the caller of applyEdits, whose finally block closes the decorations scope
RunNext ==
    /\ stack # << >>
    /\ LET item == Head(stack) IN
       /\ stack' = Tail(stack)
       /\ running' = item.listener
       /\ IF item.kind = "listener"
          THEN /\ views' = [views EXCEPT ![item.listener] = replay(@, item.event.changes)]
               /\ log' = Append(log, Happened("listener", item.listener, item.event))
               /\ UNCHANGED << dDeferredCnt, dShouldFire, dEmitted >>
          ELSE /\ UNCHANGED views
               /\ IF item.closesDecorationsScope
                  THEN LET dEnded == decorationsEndDeferredEmit(dDeferredCnt, dShouldFire) IN
                       /\ dDeferredCnt' = dEnded.deferredCnt
                       /\ dShouldFire' = dEnded.shouldFire
                       /\ dEmitted' = dEmitted + (IF dEnded.emit THEN 1 ELSE 0)
                       /\ log' = IF dEnded.emit THEN Append(log, DecorationsChanged)
                                 ELSE log
                  ELSE UNCHANGED << dDeferredCnt, dShouldFire, dEmitted, log >>
    /\ UNCHANGED << isDisposed, versionId, attachedEditorCount, text, decorations,
                    lastDecorationId, cDeferredCnt, cDeferredEvent,
                    emitted, scope, steps, call >>

----------------------------------------------------------------------------
(* SpecEdit: one batch of edits on every document of at most MaxEditLen    *)
(* code units, then the reverse edits the call returned.                   *)

MaxEditLen == 2

MaxOps == 2

\* replacement texts: nothing, or one code unit
EditTexts == DocsUpTo(1)

\* the Range instances between two offsets of t
OffsetRanges(t, offsets) ==
    { getRangeAt(t, a, b - a) : a \in offsets, b \in offsets } 

ValidatedStart(t, rawOperation) ==
    RangeStartOffset(t, _validateEditOperation(t, rawOperation).range)

ValidatedEnd(t, rawOperation) ==
    RangeEndOffset(t, _validateEditOperation(t, rawOperation).range)

\* the batches of at most n operations out of ops, in document order and apart
RECURSIVE BatchesFrom(_, _, _, _)
BatchesFrom(t, ops, minOffset, n) ==
    IF n = 0 THEN { << >> }
    ELSE { << >> } \cup
         UNION { { << o >> \o rest :
                     rest \in BatchesFrom(t, ops, ValidatedEnd(t, o) + 1, n - 1) } :
                 o \in { x \in ops : ValidatedStart(t, x) >= minOffset } }

EditOps(t) ==
    { EditOperation(r, TRUE, txt, "undefined") :
        r \in OffsetRanges(t, 0..Len(t)), txt \in EditTexts }

\* applyEdits(batch) on the document as constructed
EditApply ==
    /\ Idle
    /\ call = NoCall
    /\ \E rawOperations \in BatchesFrom(text, EditOps(text), 0, MaxOps) :
          /\ applyEdits(rawOperations)
          /\ call' = applyEditsCall(rawOperations)

\* applyEdits(the reverse edits the last call returned)
EditUndo ==
    /\ Idle
    /\ call.op = "applyEdits"
    /\ LET rawOperations ==
              [i \in 1..Len(call.reverseEdits) |->
                  EditOperation(call.reverseEdits[i].range, TRUE,
                                call.reverseEdits[i].text, "undefined")]
       IN  /\ applyEdits(rawOperations)
           /\ call' = [op |-> "applyReverseEdits", rawOperations |-> rawOperations,
                       original |-> call.textBefore, applied |-> call.rawOperations]

\* two lines of two letters each ("ab\ncd" with every letter written a)
TwoLines == << 97, 97, 10, 97, 97 >>

InitEdit == InitWith(DocsUpTo(MaxEditLen) \cup { TwoLines })

NextEdit == EditApply \/ RunNext \/ EditUndo

SpecEdit == InitEdit /\ [][NextEdit]_vars

\* C1: applyEdits with a non-overlapping batch, then applyEdits with the reverse
\* operations it returned, leaves the text equal to the text before the first call.
C1_InverseEdits == call.op = "applyReverseEdits" => text = call.original

\* C1 on documents and replacement texts whose surrogates stay paired (a cross-check)
C1_InverseEditsWellFormed ==
    (call.op = "applyReverseEdits" /\ WellFormed(call.original)
        /\ \A i \in 1..Len(call.applied) : WellFormed(call.applied[i].text))
    => text = call.original

\* the number of line breaks of a replacement text
LineBreaks(txt) == Cardinality({ k \in 1..Len(txt) : txt[k] = 10 })

\* raw holds, change after change, min(d, i) + 1 LineChanged deltas for the lines
\* startLineNumber .. startLineNumber + min(d, i), then one LinesDeleted iff d > i
\* or one LinesInserted iff i > d, and nothing else
RECURSIVE RawDeltasMatch(_, _)
RawDeltasMatch(raw, changes) ==
    IF changes = << >> THEN raw = << >>
    ELSE LET change == Head(changes)
             d == change.range.endLineNumber - change.range.startLineNumber
             i == LineBreaks(change.text)
             m == Min(d, i)
             n == m + 1 + (IF d # i THEN 1 ELSE 0)
         IN  /\ Len(raw) >= n
             /\ \A k \in 1..(m + 1) : raw[k].changeType = "LineChanged"
             /\ \A ln \in change.range.startLineNumber..(change.range.startLineNumber + m) :
                    Cardinality({ k \in 1..(m + 1) : raw[k].lineNumber = ln }) = 1
             /\ d > i => raw[n].changeType = "LinesDeleted"
             /\ i > d => raw[n].changeType = "LinesInserted"
             /\ RawDeltasMatch(SubSeq(raw, n + 1, Len(raw)), Tail(changes))

\* C13: for each change of an applied batch, with d the lines spanned by the replaced
\* range minus one and i the line breaks of the replacement text, the raw deltas
\* emitted are exactly min(d, i) + 1 LineChanged deltas for the overlapping lines,
\* plus exactly one LinesDeleted iff d > i, or exactly one LinesInserted iff i > d.
C13_RawDeltas ==
    (call.op = "applyEdits" /\ call.changes # << >>)
    => RawDeltasMatch(emitted.raw, call.changes)

\* C13 witness: inserting one letter at (1,2) into the two lines emitted exactly one
\* LineChanged(1) and nothing else.
C13_Witness ==
    /\ call.op = "applyEdits"
    /\ call.textBefore = TwoLines
    /\ Len(call.changes) = 1
    /\ call.changes[1].range = Range(1, 2, 1, 2)
    /\ call.changes[1].text = << 97 >>
    /\ Len(emitted.raw) = 1
    /\ emitted.raw[1].changeType = "LineChanged"
    /\ emitted.raw[1].lineNumber = 1
    /\ emitted.raw[1].detail = << 97, 97, 97 >>

----------------------------------------------------------------------------
(* SpecEmit: edits inside and outside an open scope of the content         *)
(* emitter, two content listeners (one fast, one slow) that may call       *)
(* applyEdits from their callback.                                         *)

MaxDepth == 2

\* replacement texts of SpecEmit: nothing, or the letter a
EmitTexts == { << >>, << 97 >> }

EmitOps(t) ==
    { EditOperation(r, TRUE, txt, "undefined") :
        r \in OffsetRanges(t, 0..Len(t)), txt \in EmitTexts }

\* DidChangeContentEmitter.beginDeferredEmit, called by an outside caller
BeginDeferredEmit ==
    /\ Idle
    /\ cDeferredCnt < MaxDepth
    /\ cDeferredCnt' = cDeferredCnt + 1
    /\ scope' = IF cDeferredCnt = 0 THEN NoScope ELSE scope
    /\ UNCHANGED << isDisposed, versionId, attachedEditorCount, log, text, decorations, lastDecorationId,
                    cDeferredEvent, dDeferredCnt,
                    dShouldFire, stack, running, views, emitted, dEmitted, steps, call >>

\* DidChangeContentEmitter.endDeferredEmit, called by the caller that opened the scope
EndDeferredEmit ==
    /\ Idle
    /\ cDeferredCnt > 0
    /\ LET ended == contentEndDeferredEmit(cDeferredCnt, cDeferredEvent)
           emits == ~ended.emit.isNull
       IN  /\ cDeferredCnt' = ended.deferredCnt
           /\ cDeferredEvent' = ended.deferredEvent
           /\ scope' = [scope EXCEPT !.emits = @ + (IF emits THEN 1 ELSE 0)]
           /\ IF emits
              THEN /\ emitted' = ended.emit
                   /\ stack' = deliver(ended.emit, "none", FALSE, stack)
                   /\ running' = "emitter"
              ELSE UNCHANGED << emitted, stack, running >>
    /\ UNCHANGED << isDisposed, versionId, attachedEditorCount, log, text, decorations, lastDecorationId,
                    dDeferredCnt, dShouldFire,
                    views, dEmitted, steps, call >>

\* applyEdits([one operation]) by an outside caller
EmitApplyEdits ==
    /\ Idle
    /\ \E rawOperations \in BatchesFrom(text, EmitOps(text), 0, 1) :
          /\ applyEdits(rawOperations)
          /\ call' = [op |-> "applyEdits"]

\* applyEdits([one operation]) called by the listener that runs now
ListenerApplyEdits ==
    /\ running \in Listeners
    /\ \E rawOperations \in BatchesFrom(text, EmitOps(text), 0, 1) :
          /\ applyEdits(rawOperations)
          /\ call' = [op |-> "applyEdits"]

InitEmit == InitWith(DocsUpTo(1))

NextEmit ==
    \/ BeginDeferredEmit
    \/ EndDeferredEmit
    \/ EmitApplyEdits
    \/ ListenerApplyEdits
    \/ RunNext

SpecEmit == InitEmit /\ [][NextEmit]_vars

\* the events fired, put together in the order in which they were fired
RECURSIVE InOrder(_)
InOrder(events) ==
    IF events = << >> THEN [raw |-> << >>, changes |-> << >>, isNull |-> FALSE]
    ELSE LET rest == InOrder(Tail(events))
         IN  [raw |-> Head(events).raw \o rest.raw,
              changes |-> Head(events).changes \o rest.changes, isNull |-> FALSE]

\* C3: the applyEdits calls made while a scope of the content emitter is open emit
\* nothing before the outermost scope closes, and then exactly one event, which is
\* the in-order merge of every change fired inside the scope.
C3_Batching ==
    /\ cDeferredCnt > 0 => scope.emits = 0
    /\ (cDeferredCnt = 0 /\ scope.fired # << >>) =>
          (scope.emits = 1 /\ emitted = InOrder(scope.fired))

\* C3 witness: two applyEdits calls fired inside one outer scope, which has closed.
C3_Witness ==
    /\ cDeferredCnt = 0
    /\ Len(scope.fired) >= 2
    /\ scope.emits = 1
    /\ Len(emitted.changes) >= 2
    /\ emitted = InOrder(scope.fired)

\* C4: whenever a content listener runs, the buffer text is the initial text with
\* the events delivered to that listener so far applied in order.
C4_ListenerSeesBackedState == running \in Listeners => views[running] = text

----------------------------------------------------------------------------
(* SpecDeco: decorations are added, changed, replaced and removed, and      *)
(* edits are applied, on documents of letters and line breaks of at most    *)
(* MaxDecoLen code units and on the ten-letter document of the documented   *)
(* stickiness example.                                                      *)

MaxDecoLen == 2

MaxDecorations == 1

MaxDecoEdits == 1

TenLetters == << 97, 97, 97, 97, 97, 97, 97, 97, 97, 97 >>

\* on the ten-letter document: only the offsets and the text of the example
ExampleOffsets == { 5, 10 }

ExampleText == << 97, 97, 97 >>

DecoDocs ==
    { d \in DocsUpTo(MaxDecoLen) : \A i \in 1..Len(d) : d[i] \in {97, 10} }
        \cup { TenLetters }

SampleOffsets(t) == IF Len(t) < Len(TenLetters) THEN 0..Len(t) ELSE ExampleOffsets

SampleRanges(t) == OffsetRanges(t, SampleOffsets(t))

\* the plain object { start: r's end, end: r's start }
Inverted(r) == IRange(r.endLineNumber, r.endColumn, r.startLineNumber, r.startColumn)

\* new decorations for deltaDecorations: a Range and a stickiness
NewDecorationInputs(t) ==
    { IModelDeltaDecoration(r, TRUE, [stickiness |-> st]) :
        r \in SampleRanges(t), st \in Stickiness }

\* new decorations for addDecoration: a plain object, ends exchanged, no stickiness
AddDecorationInputs(t) ==
    { IModelDeltaDecoration(Inverted(r), FALSE, [stickiness |-> StickinessUndefined]) :
        r \in SampleRanges(t) }

DecorationIdInputs == 1..MaxDecorations

\* the end of deltaDecorations and changeDecorations: the finally block closes the
\* decorations scope
decorationsFinally(nodes, lastId, fires) ==
    LET dEnded == decorationsEndDeferredEmit(dDeferredCnt + 1, dShouldFire \/ fires)
    IN  /\ lastId <= MaxDecorations
        /\ decorations' = nodes
        /\ lastDecorationId' = lastId
        /\ dDeferredCnt' = dEnded.deferredCnt
        /\ dShouldFire' = dEnded.shouldFire
        /\ dEmitted' = IF dEnded.emit THEN 1 ELSE 0
        /\ UNCHANGED << isDisposed, versionId, attachedEditorCount, log, text, cDeferredCnt, cDeferredEvent,
                        stack, running, views,
                        emitted, scope, steps >>

deltaDecorationsReturns(r, fires) ==
    /\ decorationsFinally(r.decorations, r.lastDecorationId, fires)
    /\ call' = [op |-> "deltaDecorations", result |-> r.result]

\* deltaDecorations(oldDecorations, newDecorations) with at most one id and at most
\* one new decoration
DeltaDecorations ==
    /\ Idle
    /\ \E oldDecorations \in { << >> } \cup { << id >> : id \in DecorationIdInputs },
          newDecorations \in { << >> } \cup { << d >> : d \in NewDecorationInputs(text) } :
          /\ ~(oldDecorations = << >> /\ newDecorations = << >>)
          /\ deltaDecorationsReturns(
                 _deltaDecorationsImpl(text, decorations, lastDecorationId, 0,
                                       oldDecorations, newDecorations, << >>),
                 deltaDecorationsFires(decorations, oldDecorations, newDecorations))

\* the calls a changeDecorations callback makes on its accessor: one of them
AccessorCalls(t) ==
    { [kind |-> "addDecoration", decoration |-> d] : d \in AddDecorationInputs(t) }
    \cup { [kind |-> "changeDecoration", id |-> id, range |-> Inverted(r), isRange |-> FALSE] :
             id \in DecorationIdInputs, r \in SampleRanges(t) }
    \cup { [kind |-> "removeDecoration", id |-> id] : id \in DecorationIdInputs }

\* _changeDecorations: what the accessor call does
accessorCall(c) ==
    IF c.kind = "addDecoration"
    THEN _deltaDecorationsImpl(text, decorations, lastDecorationId, 0,
                               << >>, << c.decoration >>, << >>)
    ELSE IF c.kind = "removeDecoration"
    THEN _deltaDecorationsImpl(text, decorations, lastDecorationId, 0,
                               << c.id >>, << >>, << >>)
    ELSE [decorations |-> _changeDecorationImpl(text, decorations, c.id, c.range, c.isRange),
          lastDecorationId |-> lastDecorationId, result |-> << >>]

accessorCallFires(c) ==
    IF c.kind = "addDecoration" THEN TRUE ELSE c.id \in DOMAIN decorations

changeDecorationsReturns(r, fires) ==
    /\ decorationsFinally(r.decorations, r.lastDecorationId, fires)
    /\ call' = [op |-> "changeDecorations"]

\* changeDecorations(callback) whose callback makes one accessor call
ChangeDecorations ==
    /\ Idle
    /\ \E c \in AccessorCalls(text) :
          changeDecorationsReturns(accessorCall(c), accessorCallFires(c))

DecoTexts(t) ==
    { << >>, << 97 >> } \cup (IF Len(t) < Len(TenLetters) THEN {} ELSE { ExampleText })

DecoOps(t) ==
    { EditOperation(r, TRUE, txt, flag) :
        r \in SampleRanges(t), txt \in DecoTexts(t), flag \in {"undefined", "true", "false"} }

PlainOps(t) ==
    { EditOperation(r, TRUE, txt, "undefined") : r \in SampleRanges(t), txt \in DecoTexts(t) }

\* one operation with any flag, or up to MaxOps operations without a flag
DecoBatches(t) ==
    BatchesFrom(t, DecoOps(t), 0, 1) \cup BatchesFrom(t, PlainOps(t), 0, MaxOps)

\* applyEdits(batch) by an outside caller
DecoApplyEdits ==
    /\ Idle
    /\ steps < MaxDecoEdits
    /\ \E rawOperations \in DecoBatches(text) :
          /\ applyEdits(rawOperations)
          /\ call' = applyEditsCall(rawOperations)

InitDeco == InitWith(DecoDocs)

NextDeco ==
    \/ DeltaDecorations
    \/ ChangeDecorations
    \/ DecoApplyEdits
    \/ RunNext

SpecDeco == InitDeco /\ [][NextDeco]_vars

\* a change that adds more than it removes and does not force the markers
GrowingChange(c) == ~c.forceMoveMarkers /\ Len(c.text) > c.rangeLength

\* C5: every live decoration has start <= end, and a decoration that was collapsed
\* before an applyEdits call is collapsed after it, unless it always grows and a
\* change that ends at its offset adds more than it removes without forcing markers.
C5_NeverInverts ==
    /\ \A id \in DOMAIN decorations : decorations[id].start <= decorations[id].end
    /\ call.op = "applyEdits" =>
          \A id \in DOMAIN call.decorationsBefore :
             LET before == call.decorationsBefore[id]
                 after == decorations[id]
             IN  (before.start = before.end /\ after.start # after.end) =>
                    /\ before.stickiness = AlwaysGrowsWhenTypingAtEdges
                    /\ \E i \in 1..Len(call.changes) :
                          /\ GrowingChange(call.changes[i])
                          /\ call.changes[i].rangeOffset + call.changes[i].rangeLength
                                = before.start

\* C5 witness: text was inserted exactly at a collapsed never-growing decoration,
\* which moved and is still collapsed.
C5_Witness ==
    /\ call.op = "applyEdits"
    /\ \E id \in DOMAIN call.decorationsBefore, i \in 1..Len(call.changes) :
          /\ call.decorationsBefore[id].start = call.decorationsBefore[id].end
          /\ call.decorationsBefore[id].stickiness = NeverGrowsWhenTypingAtEdges
          /\ call.changes[i].rangeOffset = call.decorationsBefore[id].start
          /\ call.changes[i].rangeLength = 0
          /\ Len(call.changes[i].text) > 0
          /\ decorations[id].start = decorations[id].end
          /\ decorations[id].start > call.decorationsBefore[id].start

\* the applyEdits call made one change, an insertion that does not force the markers
InsertedUnforced ==
    /\ call.op = "applyEdits"
    /\ Len(call.changes) = 1
    /\ call.changes[1].rangeLength = 0
    /\ Len(call.changes[1].text) > 0
    /\ ~call.changes[1].forceMoveMarkers

\* C6: after one insertion of n > 0 characters that does not force the markers, a
\* decoration [s,e) with s < e and the insertion at s is [s+n,e+n) for never-grows
\* and grows-only-after and [s,e+n) for always-grows and grows-only-before; with
\* the insertion at e it is [s,e+n) for always-grows and grows-only-after and
\* [s,e) for the other two.
C6_Stickiness ==
    InsertedUnforced =>
       \A id \in DOMAIN call.decorationsBefore :
          LET before == call.decorationsBefore[id]
              after == decorations[id]
              n == Len(call.changes[1].text)
              growsBefore == before.stickiness \in
                  {AlwaysGrowsWhenTypingAtEdges, GrowsOnlyWhenTypingBefore}
              growsAfter == before.stickiness \in
                  {AlwaysGrowsWhenTypingAtEdges, GrowsOnlyWhenTypingAfter}
          IN  before.start < before.end =>
                /\ call.changes[1].rangeOffset = before.start =>
                      /\ after.start = (IF growsBefore THEN before.start ELSE before.start + n)
                      /\ after.end = before.end + n
                /\ call.changes[1].rangeOffset = before.end =>
                      /\ after.start = before.start
                      /\ after.end = (IF growsAfter THEN before.end + n ELSE before.end)

\* C6 witness: the never-growing decoration [5,10) after 3 characters were inserted
\* at offset 5 is [8,13).
C6_Witness ==
    /\ InsertedUnforced
    /\ call.changes[1].rangeOffset = 5
    /\ Len(call.changes[1].text) = 3
    /\ \E id \in DOMAIN call.decorationsBefore :
          /\ call.decorationsBefore[id].start = 5
          /\ call.decorationsBefore[id].end = 10
          /\ call.decorationsBefore[id].stickiness = NeverGrowsWhenTypingAtEdges
          /\ decorations[id].start = 8
          /\ decorations[id].end = 13

\* the decoration lies entirely before the region the change replaces
LiesBefore(node, c) == node.end < c.rangeOffset

\* the decoration lies entirely after the region the change replaces
LiesAfter(node, c) == c.rangeOffset + c.rangeLength < node.start

\* newLength - length of every change the decoration lies after, added up
RECURSIVE shiftOf(_, _)
shiftOf(node, changes) ==
    IF changes = << >> THEN 0
    ELSE (IF LiesAfter(node, Head(changes))
          THEN Len(Head(changes).text) - Head(changes).rangeLength ELSE 0)
         + shiftOf(node, Tail(changes))

\* C7: a decoration that lies entirely before or entirely after each change of an
\* applyEdits call (not touching its region) has both offsets shifted by the
\* newLength - length of the changes it lies after, and so is unchanged when it
\* lies before each of them.
C7_Frame ==
    call.op = "applyEdits" =>
       \A id \in DOMAIN call.decorationsBefore :
          LET before == call.decorationsBefore[id]
              after == decorations[id]
          IN  (\A i \in 1..Len(call.changes) :
                  LiesBefore(before, call.changes[i]) \/ LiesAfter(before, call.changes[i]))
              => /\ after.start = before.start + shiftOf(before, call.changes)
                 /\ after.end = before.end + shiftOf(before, call.changes)

\* C7 witness: a decoration between two changes of one batch, moved by the change
\* before it.
C7_Witness ==
    /\ call.op = "applyEdits"
    /\ Len(call.changes) = 2
    /\ \E id \in DOMAIN call.decorationsBefore :
          /\ \E i \in 1..2 : LiesBefore(call.decorationsBefore[id], call.changes[i])
          /\ \E i \in 1..2 : /\ LiesAfter(call.decorationsBefore[id], call.changes[i])
                              /\ Len(call.changes[i].text) # call.changes[i].rangeLength
          /\ decorations[id].start # call.decorationsBefore[id].start
          /\ decorations[id].start =
                call.decorationsBefore[id].start
                   + shiftOf(call.decorationsBefore[id], call.changes)

\* the applyEdits call was given one operation, which made one change
OneOperation ==
    /\ call.op = "applyEdits"
    /\ Len(call.rawOperations) = 1
    /\ Len(call.changes) = 1

\* the decorations the call would have left, had its operation said forceMoveMarkers: false
WithFlagFalse ==
    _doApplyEdits(call.textBefore, call.decorationsBefore,
        _validateEditOperations(call.textBefore,
            << [call.rawOperations[1] EXCEPT !.forceMoveMarkers = "false"] >>)).decorations

\* C8: an operation with forceMoveMarkers = true that inserts n > 0 characters at
\* offset p moves every decoration start and end that was at p to p + n, whatever
\* the stickiness; an operation without the flag changes the decorations as the
\* same operation with forceMoveMarkers = false does.
C8_ForceMove ==
    OneOperation =>
       /\ (/\ call.rawOperations[1].forceMoveMarkers = "true"
           /\ call.changes[1].rangeLength = 0
           /\ Len(call.changes[1].text) > 0) =>
             \A id \in DOMAIN call.decorationsBefore :
                LET before == call.decorationsBefore[id]
                    after == decorations[id]
                    p == call.changes[1].rangeOffset
                    n == Len(call.changes[1].text)
                IN  /\ before.start = p => after.start = p + n
                    /\ before.end = p => after.end = p + n
       /\ call.rawOperations[1].forceMoveMarkers = "undefined" =>
             /\ call.changes[1].forceMoveMarkers = FALSE
             /\ decorations = WithFlagFalse

\* C8 witness: a forced insertion at the offset of a collapsed decoration that grows
\* only before, which moved with the inserted text.
C8_Witness ==
    /\ OneOperation
    /\ call.rawOperations[1].forceMoveMarkers = "true"
    /\ call.changes[1].rangeLength = 0
    /\ Len(call.changes[1].text) > 0
    /\ \E id \in DOMAIN call.decorationsBefore :
          /\ call.decorationsBefore[id].stickiness = GrowsOnlyWhenTypingBefore
          /\ call.decorationsBefore[id].start = call.changes[1].rangeOffset
          /\ call.decorationsBefore[id].end = call.changes[1].rangeOffset
          /\ decorations[id].start = call.changes[1].rangeOffset + Len(call.changes[1].text)
          /\ decorations[id].end = decorations[id].start


----------------------------------------------------------------------------
(* SpecPos: the read-only conversions, applied to every document of at     *)
(* most MaxLen code units and to positions and ranges in and out of it.    *)

LineInputs(t) == 0..(getLineCount(t) + 1)

ColumnInputs == 0..(MaxLen + 2)

PositionInputs(t) == { Position(ln, col) : ln \in LineInputs(t), col \in ColumnInputs }

IsOrdered(r) ==
    \/ r.startLineNumber < r.endLineNumber
    \/ (r.startLineNumber = r.endLineNumber /\ r.startColumn <= r.endColumn)

RangeInputs(t) ==
    { IRange(s.lineNumber, s.column, e.lineNumber, e.column) :
        s \in PositionInputs(t), e \in PositionInputs(t) }

ReadOnlyFrame ==
    UNCHANGED << isDisposed, versionId, attachedEditorCount, log, text, decorations, lastDecorationId,
                    cDeferredCnt, cDeferredEvent,
                 dDeferredCnt, dShouldFire, stack, running, views, emitted, scope,
                 dEmitted, steps >>

\* validatePosition(p), and validatePosition of what it returned
CallValidatePosition ==
    \E p \in PositionInputs(text), isPosition \in BOOLEAN :
        LET out == validatePosition(text, p, isPosition) IN
        /\ call = NoCall
        /\ call' = [op |-> "validatePosition", in |-> p, out |-> out,
                    again |-> validatePosition(text, out, TRUE)]
        /\ ReadOnlyFrame

\* validateRange(r); only an ordered range can be a Range instance
CallValidateRange ==
    \E r \in RangeInputs(text), isRange \in BOOLEAN :
        /\ call = NoCall
        /\ isRange => IsOrdered(r)
        /\ call' = [op |-> "validateRange", in |-> r,
                    out |-> validateRange(text, r, isRange)]
        /\ ReadOnlyFrame

\* getPositionAt(getOffsetAt(p))
CallGetPositionAtOffsetAt ==
    \E p \in PositionInputs(text) :
        LET offset == getOffsetAt(text, p) IN
        /\ call = NoCall
        /\ call' = [op |-> "getPositionAt", in |-> p, offset |-> offset,
                    out |-> getPositionAt(text, offset)]
        /\ ReadOnlyFrame

\* the check at the head of a strict line reader, with the line number clamped
\* into the document instead
strictLineNumber_clamping(t, lineNumber) ==
    [threw |-> FALSE, lineNumber |-> Max(1, Min(getLineCount(t), lineNumber))]

\* the check at the head of a strict line reader:
\* if (lineNumber < 1 || lineNumber > this.getLineCount()) throw
strictLineNumber(t, lineNumber) ==
    [threw |-> (lineNumber < 1 \/ lineNumber > getLineCount(t)),
     lineNumber |-> lineNumber]

\* space and tab
IsWhitespace(charCode) == charCode \in { 32, 9 }

\* ITextBuffer.getLineFirstNonWhitespaceColumn: 0 for a line without any
bufferGetLineFirstNonWhitespaceColumn(t, n) ==
    LET line == getLineContent(t, n)
        found == { i \in 1..Len(line) : ~IsWhitespace(line[i]) }
    IN  IF found = {} THEN 0 ELSE CHOOSE i \in found : \A j \in found : i <= j

\* ITextBuffer.getLineLastNonWhitespaceColumn: 0 for a line without any
bufferGetLineLastNonWhitespaceColumn(t, n) ==
    LET line == getLineContent(t, n)
        found == { i \in 1..Len(line) : ~IsWhitespace(line[i]) }
    IN  IF found = {} THEN 0 ELSE 1 + CHOOSE i \in found : \A j \in found : i >= j

StrictLineReaders ==
    { "getLineContent", "getLineLength", "getLineMaxColumn",
      "getLineFirstNonWhitespaceColumn", "getLineLastNonWhitespaceColumn" }

IllegalLineNumber == [threw |-> TRUE, error |-> "Illegal value for lineNumber"]

\* TextModel.getLineContent .. getLineLastNonWhitespaceColumn of a live model
strictLineReader(t, reader, lineNumber) ==
    LET checked == strictLineNumber(t, lineNumber)
        n == checked.lineNumber
    IN  IF checked.threw THEN IllegalLineNumber
        ELSE IF reader = "getLineContent"
        THEN [threw |-> FALSE, content |-> getLineContent(t, n)]
        ELSE [threw |-> FALSE,
              value |-> IF reader = "getLineLength" THEN getLineLength(t, n)
                        ELSE IF reader = "getLineMaxColumn" THEN getLineLength(t, n) + 1
                        ELSE IF reader = "getLineFirstNonWhitespaceColumn"
                        THEN bufferGetLineFirstNonWhitespaceColumn(t, n)
                        ELSE bufferGetLineLastNonWhitespaceColumn(t, n)]

\* line numbers in and out of the document
StrictLineInputs(t) == (0 - 1)..(getLineCount(t) + 2)

\* one of the strict line readers
CallStrictLineReader ==
    \E reader \in StrictLineReaders, lineNumber \in StrictLineInputs(text) :
        /\ call = NoCall
        /\ call' = [op |-> "strictLineReader", reader |-> reader,
                    lineNumber |-> lineNumber,
                    out |-> strictLineReader(text, reader, lineNumber)]
        /\ ReadOnlyFrame

\* modifyPosition(rawPosition, offset) of a live model
modifyPosition(t, rawPosition, offset) ==
    LET candidate == getOffsetAt(t, rawPosition) + offset
    IN  [threw |-> FALSE,
         position |-> getPositionAt(t, Min(getLength(t), Max(0, candidate)))]

\* offsets to advance by, before the beginning and beyond the end included
OffsetInputs == (0 - (MaxLen + 1))..(MaxLen + 1)

CallModifyPosition ==
    \E p \in PositionInputs(text), offset \in OffsetInputs :
        /\ call = NoCall
        /\ call' = [op |-> "modifyPosition", in |-> p, offset |-> offset,
                    out |-> modifyPosition(text, p, offset)]
        /\ ReadOnlyFrame

InitPos == InitWith(DocsUpTo(MaxLen))

NextPos ==
    \/ CallValidatePosition
    \/ CallValidateRange
    \/ CallGetPositionAtOffsetAt
    \/ CallStrictLineReader
    \/ CallModifyPosition

SpecPos == InitPos /\ [][NextPos]_vars

\* C2: for every valid position p, getPositionAt(getOffsetAt(p)) = p.
C2_RoundTrip ==
    (call.op = "getPositionAt" /\ IsValidPositionOf(text, call.in)) => call.out = call.in

\* C2 witness: the round trip ran on a valid position of a later line, past column 1,
\* right after a high surrogate.
C2_Witness ==
    /\ call.op = "getPositionAt"
    /\ IsValidPositionOf(text, call.in)
    /\ call.in.lineNumber > 1
    /\ call.in.column > 1
    /\ isHighSurrogate(getLineCharCode(text, call.in.lineNumber, call.in.column - 2))
    /\ call.out = call.in

\* C9: validatePosition(validatePosition(p)) = validatePosition(p), for every line
\* content and every p.
C9_Idempotent == call.op = "validatePosition" => call.again = call.out

\* C9 on documents whose surrogates are all paired (not the claim: a cross-check)
C9_IdempotentWellFormed ==
    (call.op = "validatePosition" /\ WellFormed(text)) => call.again = call.out

\* C10: neither end of the range validateRange returns lies between the two halves
\* of a surrogate pair.
C10_SurrogateSafe ==
    call.op = "validateRange" =>
        /\ ~InsideSurrogatePair(text, call.out.startLineNumber, call.out.startColumn)
        /\ ~InsideSurrogatePair(text, call.out.endLineNumber, call.out.endColumn)

\* C10 on documents whose surrogates are all paired (not the claim: a cross-check)
C10_SurrogateSafeWellFormed ==
    (call.op = "validateRange" /\ WellFormed(text)) =>
        /\ ~InsideSurrogatePair(text, call.out.startLineNumber, call.out.startColumn)
        /\ ~InsideSurrogatePair(text, call.out.endLineNumber, call.out.endColumn)

\* the clamp of C11: the line clamped to [1, lineCount], the column clamped to
\* [1, max column of that line], one column back inside a surrogate pair
ClampedPosition(t, p) ==
    LET lineNumber == Min(getLineCount(t), Max(1, p.lineNumber))
        column == Min(getLineMaxColumn(t, lineNumber), Max(1, p.column))
    IN  IF InsideSurrogatePair(t, lineNumber, column)
        THEN Position(lineNumber, column - 1)
        ELSE Position(lineNumber, column)

\* C11: validatePosition returns the position whose line is the input line clamped
\* to [1, lineCount] and whose column is the input column clamped to [1, max column
\* of that line], moved back by one column when it would land inside a surrogate pair.
C11_Clamped ==
    call.op = "validatePosition" => call.out = ClampedPosition(text, call.in)

\* C11 for input lines inside the document (not the claim: a cross-check)
C11_ClampedLineInside ==
    ( /\ call.op = "validatePosition"
      /\ 1 <= call.in.lineNumber
      /\ call.in.lineNumber <= getLineCount(text) )
    => call.out = ClampedPosition(text, call.in)

\* C11 for input lines inside a document whose surrogates are all paired (not the
\* claim: a cross-check)
C11_ClampedLineInsideWellFormed ==
    ( /\ call.op = "validatePosition"
      /\ WellFormed(text)
      /\ 1 <= call.in.lineNumber
      /\ call.in.lineNumber <= getLineCount(text) )
    => call.out = ClampedPosition(text, call.in)

\* C11 for documents whose surrogates are all paired (not the claim: a cross-check)
C11_ClampedWellFormed ==
    (call.op = "validatePosition" /\ WellFormed(text))
    => call.out = ClampedPosition(text, call.in)

\* the two ends of the range, each clamped into the document
ClampedStart(t, r) == _validatePosition(t, r.startLineNumber, r.startColumn, Relaxed)

ClampedEnd(t, r) == _validatePosition(t, r.endLineNumber, r.endColumn, Relaxed)

IsCollapsed(r) == r.startLineNumber = r.endLineNumber /\ r.startColumn = r.endColumn

\* C12: validateRange of a range that is collapsed after clamping returns a
\* collapsed range; when the point lies inside a surrogate pair both ends are one
\* column back.
C12_CollapsedStaysCollapsed ==
    ( /\ call.op = "validateRange"
      /\ ClampedStart(text, call.in) = ClampedEnd(text, call.in) )
    => /\ IsCollapsed(call.out)
       /\ LET point == ClampedStart(text, call.in) IN
          InsideSurrogatePair(text, point.lineNumber, point.column)
          => call.out = Range(point.lineNumber, point.column - 1,
                              point.lineNumber, point.column - 1)

\* C12 witness: validateRange ran on a range that clamps to one point between the
\* two halves of a surrogate pair, and returned the collapsed range one column back.
C12_Witness ==
    /\ call.op = "validateRange"
    /\ ClampedStart(text, call.in) = ClampedEnd(text, call.in)
    /\ InsideSurrogatePair(text, ClampedStart(text, call.in).lineNumber,
                           ClampedStart(text, call.in).column)
    /\ IsCollapsed(call.out)
    /\ call.out.startColumn = ClampedStart(text, call.in).column - 1

----------------------------------------------------------------------------
(* SpecDispose: edits, decorations and tracked ranges on a live document,  *)
(* inside and outside a content scope, then dispose(), then applyEdits on  *)
(* the disposed document.                                                  *)

\* applyEdits calls on the live document
MaxLiveEdits == 1

\* operations of SpecDispose: a plain operation, or a validated one, on a range of t
DisposeOps(t) ==
    EmitOps(t)
    \cup { ValidAnnotatedEditOperation(r, txt, "false") :
             r \in OffsetRanges(t, 0..Len(t)), txt \in EmitTexts }

\* batches of one or two operations
DisposeBatches(t) ==
    { << >> }
    \cup { << o >> : o \in DisposeOps(t) }
    \cup { << o1, o2 >> : o1 \in DisposeOps(t), o2 \in DisposeOps(t) }

\* dispose(): the buffer is replaced by an empty disposed one; the decorations and
\* the state of the two emitters stay as they are
Dispose ==
    /\ Idle
    /\ ~isDisposed
    /\ isDisposed' = TRUE
    /\ text' = << >>
    /\ call' = [op |-> "dispose"]
    /\ UNCHANGED << decorations, lastDecorationId, cDeferredCnt, cDeferredEvent,
                    dDeferredCnt, dShouldFire, stack, running, views, emitted, scope,
                    dEmitted, steps, versionId, attachedEditorCount, log >>

\* applyEdits(batch) by an outside caller, on the live or on the disposed document
DisposeApplyEdits ==
    /\ Idle
    /\ \E rawOperations \in DisposeBatches(text) :
          /\ IF isDisposed THEN call.op = "dispose"
             ELSE /\ steps < MaxLiveEdits
                  /\ Len(rawOperations) = 1
                  /\ ~rawOperations[1].isValidAnnotated
          /\ applyEdits(rawOperations)
          /\ call' = [op |-> "applyEdits", rawOperations |-> rawOperations,
                      disposedBefore |-> isDisposed,
                      textBefore |-> text, decorationsBefore |-> decorations,
                      emittedBefore |-> emitted, viewsBefore |-> views,
                      dEmittedBefore |-> dEmitted]

\* deltaDecorations on the live document (_assertNotDisposed)
DisposeDeltaDecorations == ~isDisposed /\ DeltaDecorations

\* _setTrackedRange(null, range, stickiness) on the live document
DisposeSetTrackedRange ==
    /\ Idle
    /\ ~isDisposed
    /\ \E newRange \in OffsetRanges(text, 0..Len(text)) :
          LET r == _setTrackedRange(text, decorations, lastDecorationId, 0, TRUE, newRange,
                                    NeverGrowsWhenTypingAtEdges)
          IN  /\ r.lastDecorationId <= MaxDecorations
              /\ decorations' = r.decorations
              /\ lastDecorationId' = r.lastDecorationId
              /\ dShouldFire' = (dShouldFire \/ r.fires)
              /\ call' = [op |-> "_setTrackedRange", result |-> r.result]
    /\ UNCHANGED << text, cDeferredCnt, cDeferredEvent, dDeferredCnt, stack, running,
                    views, emitted, scope, dEmitted, steps, isDisposed, versionId, attachedEditorCount, log >>

\* the content scope of an outside caller, on the live document
DisposeBeginDeferredEmit == ~isDisposed /\ BeginDeferredEmit

DisposeEndDeferredEmit == ~isDisposed /\ EndDeferredEmit

\* _assertNotDisposed(): throws 'Model is disposed!'
_assertNotDisposed(disposed) == disposed

\* public operations whose first statement is this._assertNotDisposed()
AssertingOperations ==
    { "getValue", "getLineCount", "getLineContent", "getOffsetAt", "getPositionAt",
      "validatePosition", "validateRange", "modifyPosition", "getFullModelRange",
      "setValue", "changeDecorations", "deltaDecorations" }

\* public operations that read or hand out state without that statement
UnassertingOperations ==
    { "createSnapshot", "getDecorationOptions", "getAllDecorations",
      "isAttachedToEditor" }

\* one of these operations called on the disposed document: it throws or returns,
\* and changes nothing
DisposedOperation ==
    /\ Idle
    /\ isDisposed
    /\ call.op = "dispose"
    /\ \E op \in AssertingOperations \cup UnassertingOperations :
          call' = [op |-> op, disposedBefore |-> isDisposed,
                   threw |-> (op \in AssertingOperations /\ _assertNotDisposed(isDisposed))]
    /\ UNCHANGED << text, decorations, lastDecorationId, cDeferredCnt, cDeferredEvent,
                    dDeferredCnt, dShouldFire, stack, running, views, emitted, scope,
                    dEmitted, steps, isDisposed, versionId, attachedEditorCount, log >>

\* removeAllDecorationsWithOwnerId(ownerId): returns at once on a disposed document
removeAllDecorationsWithOwnerId(disposed, nodes, ownerId) ==
    IF disposed THEN nodes
    ELSE [id \in { i \in DOMAIN nodes : nodes[i].ownerId # ownerId } |-> nodes[id]]

DisposeRemoveAllDecorationsWithOwnerId ==
    /\ Idle
    /\ IF isDisposed THEN call.op = "dispose" ELSE call.op = "deltaDecorations"
    /\ decorations' = removeAllDecorationsWithOwnerId(isDisposed, decorations, 0)
    /\ call' = [op |-> "removeAllDecorationsWithOwnerId", disposedBefore |-> isDisposed,
                threw |-> FALSE]
    /\ UNCHANGED << text, lastDecorationId, cDeferredCnt, cDeferredEvent,
                    dDeferredCnt, dShouldFire, stack, running, views, emitted, scope,
                    dEmitted, steps, isDisposed, versionId, attachedEditorCount, log >>

\* getDecorationRange(id) on the disposed document: no _assertNotDisposed
DisposeGetDecorationRange ==
    /\ Idle
    /\ isDisposed
    /\ call.op = "dispose"
    /\ \E id \in 1..MaxDecorations :
          LET out == getDecorationRange(text, decorations, id)
          IN  /\ decorations' = out.decorations
              /\ call' = [op |-> "getDecorationRange", disposedBefore |-> isDisposed,
                          threw |-> FALSE, id |-> id, out |-> out.range]
    /\ UNCHANGED << text, lastDecorationId, cDeferredCnt, cDeferredEvent,
                    dDeferredCnt, dShouldFire, stack, running, views, emitted, scope,
                    dEmitted, steps, isDisposed, versionId, attachedEditorCount, log >>

InitDispose == InitWith(DocsUpTo(1))

NextDispose ==
    \/ DisposeApplyEdits
    \/ DisposeDeltaDecorations
    \/ DisposeSetTrackedRange
    \/ DisposeBeginDeferredEmit
    \/ DisposeEndDeferredEmit
    \/ RunNext
    \/ Dispose
    \/ DisposedOperation
    \/ DisposeRemoveAllDecorationsWithOwnerId
    \/ DisposeGetDecorationRange

SpecDispose == InitDispose /\ [][NextDispose]_vars

\* the last applyEdits was called on a disposed document with an operation that
\* had to be validated
ValidationFailed ==
    /\ call.disposedBefore
    /\ \E i \in 1..Len(call.rawOperations) : ~call.rawOperations[i].isValidAnnotated

\* C14: if validation of any operation of the batch fails, the buffer text and the
\* decorations are exactly as before the call and no content-changed or
\* decorations-changed event is emitted.
C14_AllOrNothing ==
    (call.op = "applyEdits" /\ ValidationFailed)
    => /\ text = call.textBefore
       /\ decorations = call.decorationsBefore
       /\ stack = << >>
       /\ emitted = call.emittedBefore
       /\ views = call.viewsBefore
       /\ dEmitted = call.dEmittedBefore

\* C14 witness: validation failed on the second operation of a batch, on a document
\* that holds a decoration, with a content event pending.
C14_Witness ==
    /\ call.op = "applyEdits"
    /\ ValidationFailed
    /\ Len(call.rawOperations) = 2
    /\ call.rawOperations[1].isValidAnnotated
    /\ call.rawOperations[1].text # << >>
    /\ call.decorationsBefore # << >>
    /\ ~cDeferredEvent.isNull
    /\ text = call.textBefore

\* the operations of SpecDispose that record whether they threw
RecordsThrow == "threw" \in DOMAIN call

\* C21: once dispose() has completed, every operation of the TextModel fails with
\* an error instead of returning a value or silently doing nothing.
C21_DisposedFails ==
    (RecordsThrow /\ call.disposedBefore) => call.threw

\* C21 for the operations that start with _assertNotDisposed
C21_DisposedFailsAsserting ==
    (RecordsThrow /\ call.op \in AssertingOperations /\ call.disposedBefore) => call.threw

\* C22: applyEdits called on a disposed model fails before any mutation begins, for
\* every operation list: the buffer, the decorations and the pending and emitted
\* events are unchanged by the call.
C22_DisposedApplyEdits ==
    (call.op = "applyEdits" /\ call.disposedBefore)
    => /\ text = call.textBefore
       /\ decorations = call.decorationsBefore
       /\ stack = << >>
       /\ emitted = call.emittedBefore
       /\ dEmitted = call.dEmittedBefore

\* C22 for the empty operation list
C22_DisposedApplyEditsEmpty ==
    (call.op = "applyEdits" /\ call.disposedBefore /\ call.rawOperations = << >>)
    => /\ text = call.textBefore
       /\ decorations = call.decorationsBefore

----------------------------------------------------------------------------
(* The order of the calls inside _doApplyEdits (SpecEdit). *)

\* the calls of the last applyEdits that commit changes to the buffer
BufferCalls == { j \in DOMAIN call.calls : call.calls[j].callee = "_buffer.applyEdits" }

AcceptReplaceCalls ==
    { i \in DOMAIN call.calls : call.calls[i].callee = "_decorationsTree.acceptReplace" }

----------------------------------------------------------------------------
(* The version of the document (SpecEdit). *)

\* C16: the version counter increases by exactly one on every applyEdits call that
\* changes the document, and never decreases.
C16_VersionAdvances ==
    (call.op = "applyEdits" /\ call.changes # << >>) => versionId = call.versionBefore + 1

\* the part of C16 that holds: the version never decreases (not the claim: a cross-check)
C16_VersionNeverDecreases == [][versionId' >= versionId]_vars

----------------------------------------------------------------------------
(* SpecRange: decorations are added, changed and removed, the document is  *)
(* edited, and the range of a decoration is read in between.               *)

\* getDecorationRange(id) by an outside caller
GetDecorationRange ==
    /\ Idle
    /\ call.op # "getDecorationRange"
    /\ \E id \in DecorationIdInputs :
          LET r == getDecorationRange(text, decorations, id) IN
          /\ decorations' = r.decorations
          /\ call' = [op |-> "getDecorationRange", id |-> id, out |-> r.range,
                      edits |-> steps]
    /\ UNCHANGED << text, lastDecorationId, cDeferredCnt, cDeferredEvent, dDeferredCnt,
                    dShouldFire, stack, running, views, emitted, scope, dEmitted, steps,
                    isDisposed, versionId, attachedEditorCount, log >>

InitRange == InitWith({ d \in DecoDocs : Len(d) <= MaxDecoLen })

NextRange ==
    \/ DeltaDecorations
    \/ ChangeDecorations
    \/ DecoApplyEdits
    \/ RunNext
    \/ GetDecorationRange

SpecRange == InitRange /\ [][NextRange]_vars

\* the range between the current offsets of the decoration, in the current buffer
CurrentRange(id) ==
    getRangeAt(text, decorations[id].start, decorations[id].end - decorations[id].start)

\* C17: getDecorationRange(id) for a live decoration returns the line/column range
\* that corresponds to the decoration's current start and end offsets in the current
\* buffer, never a range cached before a later edit.
C17_CurrentRange ==
    (call.op = "getDecorationRange" /\ call.id \in DOMAIN decorations)
    => call.out = CurrentRange(call.id)

\* C17 as long as the document was not edited (not the claim: a cross-check)
C17_CurrentRangeBeforeEdits ==
    (call.op = "getDecorationRange" /\ call.id \in DOMAIN decorations /\ call.edits = 0)
    => call.out = CurrentRange(call.id)

----------------------------------------------------------------------------
(* SpecDelta: deltaDecorations with up to two old ids (the same id twice    *)
(* included) and up to two new decorations, for two owners.                *)

\* deltaDecorations calls in a behaviour
MaxDeltaCalls == 2

\* decoration ids a caller may name
MaxDeltaIds == 2

DeltaOwners == { 0, 1 }

DeltaDescriptors(t) ==
    { IModelDeltaDecoration(r, TRUE, [stickiness |-> st]) :
        r \in OffsetRanges(t, 0..Len(t)),
        st \in { AlwaysGrowsWhenTypingAtEdges, NeverGrowsWhenTypingAtEdges } }

\* the sequences of at most two elements of S
UpToTwo(S) == { << >> } \cup { << a >> : a \in S } \cup { << a, b >> : a \in S, b \in S }

deltaCalls == IF call.op = "deltaDecorations" THEN call.n ELSE 0

\* a reference for deltaDecorations: every old decoration is removed, then every new
\* one is added under a fresh id; no node is used again
RECURSIVE referenceRemove(_, _)
referenceRemove(nodes, oldDecorationsIds) ==
    IF oldDecorationsIds = << >> THEN nodes
    ELSE referenceRemove(withoutNode(nodes, Head(oldDecorationsIds)), Tail(oldDecorationsIds))

RECURSIVE referenceAdd(_, _, _, _, _, _)
referenceAdd(t, nodes, lastId, ownerId, newDecorations, result) ==
    IF newDecorations = << >>
    THEN [decorations |-> nodes, lastDecorationId |-> lastId, result |-> result]
    ELSE referenceAdd(t, withNode(nodes, lastId + 1,
                                  initializedNode(t, ownerId, Head(newDecorations))),
                      lastId + 1, ownerId, Tail(newDecorations), Append(result, lastId + 1))

referenceDeltaDecorations(t, nodes, lastId, ownerId, oldDecorationsIds, newDecorations) ==
    referenceAdd(t, referenceRemove(nodes, oldDecorationsIds), lastId, ownerId,
                 newDecorations, << >>)

\* the end of deltaDecorations: the finally block closes the decorations scope
deltaDecorationsFinally(r, fires) ==
    LET dEnded == decorationsEndDeferredEmit(dDeferredCnt + 1, dShouldFire \/ fires)
    IN  /\ decorations' = r.decorations
        /\ lastDecorationId' = r.lastDecorationId
        /\ dDeferredCnt' = dEnded.deferredCnt
        /\ dShouldFire' = dEnded.shouldFire
        /\ dEmitted' = IF dEnded.emit THEN 1 ELSE 0
        /\ UNCHANGED << isDisposed, versionId, attachedEditorCount, log, text, cDeferredCnt, cDeferredEvent,
                        stack, running, views, emitted, scope, steps >>

\* deltaDecorations(oldDecorations, newDecorations, ownerId) by an outside caller;
\* with nothing to remove and nothing to add it returns [] at once
DeltaCall ==
    /\ Idle
    /\ deltaCalls < MaxDeltaCalls
    /\ \E ownerId \in DeltaOwners,
          oldDecorations \in UpToTwo(1..MaxDeltaIds),
          newDecorations \in UpToTwo(DeltaDescriptors(text)) :
          /\ IF oldDecorations = << >> /\ newDecorations = << >>
             THEN /\ dEmitted' = 0
                  /\ UNCHANGED << isDisposed, versionId, attachedEditorCount, log, text, decorations, lastDecorationId,
                                  cDeferredCnt, cDeferredEvent, dDeferredCnt, dShouldFire,
                                  stack, running, views, emitted, scope, steps >>
             ELSE deltaDecorationsFinally(
                      _deltaDecorationsImpl(text, decorations, lastDecorationId, ownerId,
                                            oldDecorations, newDecorations, << >>),
                      deltaDecorationsFires(decorations, oldDecorations, newDecorations))
          /\ call' = [op |-> "deltaDecorations", n |-> deltaCalls + 1,
                      ownerId |-> ownerId, oldDecorations |-> oldDecorations,
                      newDecorations |-> newDecorations,
                      result |-> _deltaDecorationsImpl(text, decorations, lastDecorationId,
                                     ownerId, oldDecorations, newDecorations, << >>).result,
                      decorationsBefore |-> decorations,
                      reference |-> referenceDeltaDecorations(text, decorations,
                                        lastDecorationId, ownerId, oldDecorations,
                                        newDecorations)]

\* the empty document and the document "a"
DeltaDocs == { << >>, << 97 >> }

InitDelta == InitWith(DeltaDocs)

NextDelta == DeltaCall

SpecDelta == InitDelta /\ [][NextDelta]_vars

\* the ids the last call named
NamedIds == { call.oldDecorations[i] : i \in 1..Len(call.oldDecorations) }

\* the decoration that the i-th descriptor of the last call describes
DescribedNode(i) == initializedNode(text, call.ownerId, call.newDecorations[i])

\* what a decoration carries: its range (as offsets), its options and its owner
Carried(node) == << node.start, node.end, node.stickiness, node.ownerId >>

\* C18: deltaDecorations returns an array of the same length as newDescriptors whose
\* i-th id identifies a decoration carrying the i-th descriptor's validated range,
\* its options and the call's owner id; after the call the store holds exactly the
\* decorations it held before minus those named in oldIds plus one per descriptor,
\* and listeners are notified at most once, at the end.
C18_Delta ==
    call.op = "deltaDecorations" =>
        /\ Len(call.result) = Len(call.newDecorations)
        /\ \A i \in 1..Len(call.result) :
              /\ call.result[i] \in DOMAIN decorations
              /\ Carried(decorations[call.result[i]]) = Carried(DescribedNode(i))
        /\ \A i, j \in 1..Len(call.result) : i # j => call.result[i] # call.result[j]
        /\ DOMAIN decorations
              = (DOMAIN call.decorationsBefore \ NamedIds)
                \cup { call.result[i] : i \in 1..Len(call.result) }
        /\ \A id \in DOMAIN call.decorationsBefore \ NamedIds :
              decorations[id] = call.decorationsBefore[id]
        /\ dEmitted <= 1

NoRepetition(ids) == \A i, j \in 1..Len(ids) : i # j => ids[i] # ids[j]

\* C18 for calls that name no id twice (not the claim: a cross-check)
C18_DeltaNoRepetition ==
    (call.op = "deltaDecorations" /\ NoRepetition(call.oldDecorations)) =>
        /\ Len(call.result) = Len(call.newDecorations)
        /\ \A i \in 1..Len(call.result) :
              /\ call.result[i] \in DOMAIN decorations
              /\ Carried(decorations[call.result[i]]) = Carried(DescribedNode(i))
        /\ \A i, j \in 1..Len(call.result) : i # j => call.result[i] # call.result[j]
        /\ DOMAIN decorations
              = (DOMAIN call.decorationsBefore \ NamedIds)
                \cup { call.result[i] : i \in 1..Len(call.result) }
        /\ \A id \in DOMAIN call.decorationsBefore \ NamedIds :
              decorations[id] = call.decorationsBefore[id]

\* how many decorations of the store carry c
CountOf(nodes, c) == Cardinality({ id \in DOMAIN nodes : Carried(nodes[id]) = c })

\* the same decorations, up to the renaming of ids
SameStore(nodes1, nodes2) ==
    \A c \in { Carried(nodes1[id]) : id \in DOMAIN nodes1 }
             \cup { Carried(nodes2[id]) : id \in DOMAIN nodes2 } :
        CountOf(nodes1, c) = CountOf(nodes2, c)

\* whether the reference changes the store, and so notifies the listeners
ReferenceFires ==
    \/ call.newDecorations # << >>
    \/ referenceRemove(call.decorationsBefore, call.oldDecorations) # call.decorationsBefore

\* C19: for every store state and every call, the implementation that reuses removed
\* nodes and the reference that removes every old decoration and then adds every new
\* one produce the same observable store: the same decorations through the returned
\* ids, the same decorations in the store, the same emitted events, up to renaming
\* of ids.
C19_ReuseEquivalent ==
    call.op = "deltaDecorations" =>
        /\ Len(call.result) = Len(call.reference.result)
        /\ \A i \in 1..Len(call.result) :
              /\ call.result[i] \in DOMAIN decorations
              /\ Carried(decorations[call.result[i]])
                    = Carried(call.reference.decorations[call.reference.result[i]])
        /\ SameStore(decorations, call.reference.decorations)
        /\ dEmitted = (IF ReferenceFires THEN 1 ELSE 0)

\* C19 for calls that name no id twice (not the claim: a cross-check)
C19_ReuseEquivalentNoRepetition ==
    (call.op = "deltaDecorations" /\ NoRepetition(call.oldDecorations)) =>
        /\ Len(call.result) = Len(call.reference.result)
        /\ \A i \in 1..Len(call.result) :
              /\ call.result[i] \in DOMAIN decorations
              /\ Carried(decorations[call.result[i]])
                    = Carried(call.reference.decorations[call.reference.result[i]])
        /\ SameStore(decorations, call.reference.decorations)
        /\ dEmitted = (IF ReferenceFires THEN 1 ELSE 0)

\* C31: for deltaDecorations(oldIds, newDescriptors) with any oldIds (unknown ids
\* and ids listed more than once included), the returned ids are pairwise distinct
\* and each of them resolves, immediately after the call, to a live decoration
\* (getDecorationRange is not null).
C31_ReturnedIdsLive ==
    call.op = "deltaDecorations"
    => /\ \A i, j \in 1..Len(call.result) : i # j => call.result[i] # call.result[j]
       /\ \A i \in 1..Len(call.result) :
             getDecorationRange(text, decorations, call.result[i]).range # NullRange

\* C31 for the calls that list no id more than once
C31_ReturnedIdsLiveNoRepetition ==
    (call.op = "deltaDecorations" /\ NoRepetition(call.oldDecorations))
    => /\ \A i, j \in 1..Len(call.result) : i # j => call.result[i] # call.result[j]
       /\ \A i \in 1..Len(call.result) :
             getDecorationRange(text, decorations, call.result[i]).range # NullRange

----------------------------------------------------------------------------
(* SpecAccessor: changeDecorations whose callback makes up to              *)
(* MaxAccessorCalls calls on the accessor, of all five kinds.              *)

\* changeDecorations calls in a behaviour
MaxCallbacks == 2

\* accessor calls in one callback
MaxAccessorCalls == 2

\* _changeDecorationOptionsImpl(decorationId, options), options normalised
_changeDecorationOptionsImpl(nodes, decorationId, options) ==
    IF decorationId \notin DOMAIN nodes THEN nodes
    ELSE [nodes EXCEPT ![decorationId].stickiness = options.stickiness]

\* DidChangeDecorationsEmitter.fire() that calls the listeners at once
decorationsFire_immediate(shouldFire, emits) ==
    [shouldFire |-> shouldFire, emits |-> emits + 1]

\* DidChangeDecorationsEmitter.fire(): the flag is set, no listener is called
decorationsFire(shouldFire, emits) ==
    [shouldFire |-> TRUE, emits |-> emits]

\* the calls a callback may make on its accessor
AccessorInputs(t) ==
    { [kind |-> "addDecoration", decoration |-> d] :
        d \in { IModelDeltaDecoration(r, TRUE, [stickiness |-> StickinessUndefined]) :
                  r \in OffsetRanges(t, 0..Len(t)) } }
    \cup { [kind |-> "changeDecoration", id |-> id, range |-> r] :
             id \in 1..MaxDeltaIds, r \in OffsetRanges(t, 0..Len(t)) }
    \cup { [kind |-> "changeDecorationOptions", id |-> id,
            options |-> [stickiness |-> NeverGrowsWhenTypingAtEdges]] :
             id \in 1..MaxDeltaIds }
    \cup { [kind |-> "removeDecoration", id |-> id] : id \in 1..MaxDeltaIds }
    \cup { [kind |-> "deltaDecorations", oldDecorations |-> old, newDecorations |-> new] :
             old \in { << >>, << 1 >> },
             new \in { << >> } \cup
                     { << IModelDeltaDecoration(r, TRUE,
                                                [stickiness |-> StickinessUndefined]) >> :
                         r \in OffsetRanges(t, 0..Len(t)) } }

\* the callbacks: sequences of one to MaxAccessorCalls accessor calls
RECURSIVE Callbacks(_, _)
Callbacks(t, n) ==
    IF n = 0 THEN { << >> }
    ELSE { << >> } \cup
         { << c >> \o rest : c \in AccessorInputs(t), rest \in Callbacks(t, n - 1) }

\* one call on the accessor built by _changeDecorations: the store after it
accessorStore(t, nodes, lastId, ownerId, c) ==
    IF c.kind = "addDecoration"
    THEN _deltaDecorationsImpl(t, nodes, lastId, ownerId, << >>, << c.decoration >>, << >>)
    ELSE IF c.kind = "removeDecoration"
    THEN _deltaDecorationsImpl(t, nodes, lastId, ownerId, << c.id >>, << >>, << >>)
    ELSE IF c.kind = "deltaDecorations"
    THEN _deltaDecorationsImpl(t, nodes, lastId, ownerId, c.oldDecorations,
                               c.newDecorations, << >>)
    ELSE IF c.kind = "changeDecoration"
    THEN [decorations |-> _changeDecorationImpl(t, nodes, c.id, c.range, TRUE),
          lastDecorationId |-> lastId, result |-> << >>]
    ELSE [decorations |-> _changeDecorationOptionsImpl(nodes, c.id,
                                                       _normalizeOptions(c.options)),
          lastDecorationId |-> lastId, result |-> << >>]

\* DidChangeDecorationsEmitter.checkAffectedAndFire(options), called by
\* _changeDecorationImpl and _changeDecorationOptionsImpl: a fire()
checkAffectedAndFire(shouldFire, emits) ==
    decorationsFire(shouldFire, emits)

\* whether that call reaches the fire() of _deltaDecorationsImpl
accessorFires(nodes, c) ==
    IF c.kind = "addDecoration" THEN deltaDecorationsFires(nodes, << >>, << c.decoration >>)
    ELSE IF c.kind = "removeDecoration" THEN deltaDecorationsFires(nodes, << c.id >>, << >>)
    ELSE IF c.kind = "deltaDecorations"
    THEN /\ ~(c.oldDecorations = << >> /\ c.newDecorations = << >>)
         /\ deltaDecorationsFires(nodes, c.oldDecorations, c.newDecorations)
    ELSE FALSE

\* whether that call reaches checkAffectedAndFire: a change of a live decoration
accessorChecksAffected(nodes, c) ==
    /\ c.kind \in { "changeDecoration", "changeDecorationOptions" }
    /\ c.id \in DOMAIN nodes

\* the callback, call after call: the store, the flag of the emitter, the listener
\* calls made while the callback runs (emits) and the calls that changed the store
RECURSIVE runCallback(_, _, _, _)
runCallback(t, ownerId, st, calls) ==
    IF calls = << >> THEN st
    ELSE LET c == Head(calls)
             r == accessorStore(t, st.decorations, st.lastDecorationId, ownerId, c)
             fired == IF accessorFires(st.decorations, c)
                      THEN decorationsFire(st.shouldFire, st.emits)
                      ELSE IF accessorChecksAffected(st.decorations, c)
                      THEN checkAffectedAndFire(st.shouldFire, st.emits)
                      ELSE [shouldFire |-> st.shouldFire, emits |-> st.emits]
         IN  runCallback(t, ownerId,
                 [decorations |-> r.decorations,
                  lastDecorationId |-> r.lastDecorationId,
                  shouldFire |-> fired.shouldFire,
                  emits |-> fired.emits,
                  mutations |-> st.mutations
                                + (IF r.decorations # st.decorations THEN 1 ELSE 0)],
                 Tail(calls))

\* the methods of the change accessor handed to the callback
changeAccessor ==
    [k \in { "addDecoration", "changeDecoration", "changeDecorationOptions",
             "removeDecoration", "deltaDecorations" } |-> "live"]

\* an invalidation that leaves deltaDecorations usable
invalidated_butDelta(accessor) ==
    [k \in DOMAIN accessor |-> IF k = "deltaDecorations" THEN accessor[k]
                               ELSE "invalidFunc"]

\* _changeDecorations after the callback: every method becomes invalidFunc
invalidated(accessor) ==
    [k \in DOMAIN accessor |-> "invalidFunc"]

\* the end of changeDecorations once the callback has returned st
changeDecorationsFinally(calls, st) ==
    LET dEnded == decorationsEndDeferredEmit(dDeferredCnt + 1, st.shouldFire) IN
    /\ decorations' = st.decorations
    /\ lastDecorationId' = st.lastDecorationId
    /\ dDeferredCnt' = dEnded.deferredCnt
    /\ dShouldFire' = dEnded.shouldFire
    /\ dEmitted' = st.emits + (IF dEnded.emit THEN 1 ELSE 0)
    /\ call' = [op |-> "changeDecorations",
                n |-> 1 + (IF "n" \in DOMAIN call THEN call.n ELSE 0),
                calls |-> calls, mutations |-> st.mutations,
                emitsInCallback |-> st.emits,
                accessor |-> invalidated(changeAccessor)]
    /\ UNCHANGED << isDisposed, versionId, attachedEditorCount, log, text, cDeferredCnt, cDeferredEvent, stack,
                    running, views, emitted, scope, steps >>

\* changeDecorations(callback) by an outside caller
ChangeDecorationsCallback ==
    /\ Idle
    /\ ~isDisposed
    /\ ("n" \in DOMAIN call => call.n < MaxCallbacks)
    /\ \E calls \in Callbacks(text, MaxAccessorCalls) :
          changeDecorationsFinally(calls,
              runCallback(text, 0,
                  [decorations |-> decorations, lastDecorationId |-> lastDecorationId,
                   shouldFire |-> dShouldFire, emits |-> 0, mutations |-> 0],
                  calls))

\* invalidFunc: throws 'Invalid change accessor'
invalidFunc(method) == method = "invalidFunc"

\* a method of the accessor called after changeDecorations has returned, outside
\* every scope of the emitter
AccessorAfterReturn ==
    /\ Idle
    /\ call.op = "changeDecorations"
    /\ \E c \in AccessorInputs(text) :
          LET threw == invalidFunc(call.accessor[c.kind])
              r == accessorStore(text, decorations, lastDecorationId, 0, c)
          IN  /\ decorations' = IF threw THEN decorations ELSE r.decorations
              /\ lastDecorationId' = IF threw THEN lastDecorationId
                                     ELSE r.lastDecorationId
              /\ dShouldFire' = IF threw THEN dShouldFire
                                ELSE (dShouldFire \/ accessorFires(decorations, c)
                                                 \/ accessorChecksAffected(decorations, c))
              /\ call' = [op |-> "accessorAfterReturn", n |-> call.n, kind |-> c.kind,
                          threw |-> threw, decorationsBefore |-> decorations]
    /\ UNCHANGED << text, cDeferredCnt, cDeferredEvent, dDeferredCnt, stack, running,
                    views, emitted, scope, dEmitted, steps, isDisposed, versionId, attachedEditorCount, log >>

InitAccessor == InitWith(DeltaDocs)

NextAccessor ==
    \/ ChangeDecorationsCallback
    \/ AccessorAfterReturn

SpecAccessor == InitAccessor /\ [][NextAccessor]_vars

\* C20: the decoration mutations made through the accessor inside one
\* changeDecorations call, however many (at least one), produce exactly one
\* decorations-changed notification, emitted only after the callback has returned.
C20_OneNotification ==
    (call.op = "changeDecorations" /\ call.mutations >= 1)
    => /\ call.emitsInCallback = 0
       /\ dEmitted = 1

\* C20 witness: a callback added a decoration and then changed its range, and the
\* listeners were notified once, after the callback.
C20_Witness ==
    /\ call.op = "changeDecorations"
    /\ call.mutations = 2
    /\ call.calls[1].kind = "addDecoration"
    /\ call.calls[2].kind = "changeDecoration"
    /\ call.emitsInCallback = 0
    /\ dEmitted = 1

\* C23: after changeDecorations has returned, every method of the change accessor
\* that was passed to the callback fails with an 'Invalid change accessor' error
\* and changes no decoration.
C23_InvalidAccessor ==
    call.op = "accessorAfterReturn"
    => /\ call.threw
       /\ decorations = call.decorationsBefore

\* C23 witness: deltaDecorations of the accessor was called after the return, on a
\* document that holds a decoration, and threw.
C23_Witness ==
    /\ call.op = "accessorAfterReturn"
    /\ call.kind = "deltaDecorations"
    /\ call.threw
    /\ decorations # << >>

----------------------------------------------------------------------------
(* The strict line readers (SpecPos). *)

\* C24: getLineContent, getLineLength, getLineMaxColumn,
\* getLineFirstNonWhitespaceColumn and getLineLastNonWhitespaceColumn fail with an
\* 'Illegal value for lineNumber' error for every line number below 1 or above the
\* line count, and never clamp it.
C24_StrictLineReaders ==
    (call.op = "strictLineReader"
     /\ (call.lineNumber < 1 \/ call.lineNumber > getLineCount(text)))
    => call.out = IllegalLineNumber

\* C24 witness: getLineMaxColumn of the line after the last one of a document of two
\* lines threw.
C24_Witness ==
    /\ call.op = "strictLineReader"
    /\ call.reader = "getLineMaxColumn"
    /\ getLineCount(text) = 2
    /\ call.lineNumber = 3
    /\ call.out.threw

----------------------------------------------------------------------------
(* The raw line deltas replayed on the lines of the document (SpecEdit). *)

\* the line array of t
LinesOf(t) == [n \in 1..getLineCount(t) |-> getLineContent(t, n)]

\* one raw delta applied to a line array, as a listener of the raw event does
applyRawChange(lines, change) ==
    IF change.changeType = "LineChanged"
    THEN [lines EXCEPT ![change.lineNumber] = change.detail]
    ELSE IF change.changeType = "LinesDeleted"
    THEN SubSeq(lines, 1, change.fromLineNumber - 1)
         \o SubSeq(lines, change.toLineNumber + 1, Len(lines))
    ELSE SubSeq(lines, 1, change.fromLineNumber - 1)
         \o change.detail
         \o SubSeq(lines, change.fromLineNumber, Len(lines))

RECURSIVE replayRaw(_, _)
replayRaw(lines, raw) ==
    IF raw = << >> THEN lines
    ELSE replayRaw(applyRawChange(lines, Head(raw)), Tail(raw))

\* C28: for every batch applied by applyEdits, applying the raw line deltas of the
\* emitted event in order to a copy of the pre-edit line array yields exactly the
\* post-edit line array of the buffer.
C28_RawReplay ==
    (call.op = "applyEdits" /\ call.changes # << >>)
    => replayRaw(LinesOf(call.textBefore), emitted.raw) = LinesOf(text)

\* C28 witness: a batch of two changes, the first inserting a line break, was
\* replayed from its raw deltas, a LinesInserted among them.
C28_Witness ==
    /\ call.op = "applyEdits"
    /\ Len(call.changes) = 2
    /\ getLineCount(text) > getLineCount(call.textBefore)
    /\ \E k \in 1..Len(emitted.raw) : emitted.raw[k].changeType = "LinesInserted"
    /\ replayRaw(LinesOf(call.textBefore), emitted.raw) = LinesOf(text)

----------------------------------------------------------------------------
(* modifyPosition (SpecPos). *)

\* the offset of the given position plus the given offset
TargetOffset == getOffsetAt(text, call.in) + call.offset

\* C26: modifyPosition(position, offset) throws an exception whenever the offset of
\* the position plus the given offset lies before the beginning or beyond the end of
\* the model; it returns a position only when the sum is within [0, model length].
C26_ModifyPositionThrows ==
    call.op = "modifyPosition"
    => (call.out.threw <=> (TargetOffset < 0 \/ TargetOffset > getLength(text)))

\* C26, what holds: modifyPosition never throws and returns the position of the sum
\* clamped into [0, model length]
C26_ModifyPositionClamps ==
    call.op = "modifyPosition"
    => /\ ~call.out.threw
       /\ call.out.position
            = bufferGetPositionAt(text, Min(getLength(text), Max(0, TargetOffset)))

----------------------------------------------------------------------------
(* SpecSnapshot: createSnapshot() and the read() calls on the snapshot.    *)
(* The snapshot object (its source and _eos) is carried by `call`.          *)

\* the 64 * 1024 of TextModelSnapshot.read, scaled down
ChunkThreshold == 2

\* length of the documents of SpecSnapshot
MaxSnapshotLen == 5

\* chunks of the source snapshot
MaxChunks == 3

\* the ways the buffer's own snapshot may cut t into at most n chunks, empty ones
\* included
RECURSIVE SourceChunks(_, _)
SourceChunks(t, n) ==
    IF n = 0 THEN (IF t = << >> THEN { << >> } ELSE {})
    ELSE (IF t = << >> THEN { << >> } ELSE {})
         \cup UNION { { << SubSeq(t, 1, k) >> \o rest :
                          rest \in SourceChunks(SubSeq(t, k + 1, Len(t)), n - 1) } :
                        k \in 0..Len(t) }

NullChunk == [isNull |-> TRUE, chunk |-> << >>]

\* the loop of TextModelSnapshot.read(): source chunks are appended to result until
\* the source ends or result has reached the threshold
RECURSIVE readLoop(_, _)
readLoop(source, result) ==
    IF source = << >>
    THEN [source |-> source, eos |-> TRUE,
          out |-> IF result = << >> THEN NullChunk
                  ELSE [isNull |-> FALSE, chunk |-> result],
          sourceReads |-> 1]
    ELSE LET joined == result \o Head(source) IN
         IF Len(joined) >= ChunkThreshold
         THEN [source |-> Tail(source), eos |-> FALSE,
               out |-> [isNull |-> FALSE, chunk |-> joined],
               sourceReads |-> 1]
         ELSE [readLoop(Tail(source), joined) EXCEPT !.sourceReads = @ + 1]

\* TextModelSnapshot.read() without the test of _eos
read_withoutEos(source, eos) == readLoop(source, << >>)

\* TextModelSnapshot.read(); sourceReads counts its calls of this._source.read()
read(source, eos) ==
    IF eos THEN [source |-> source, eos |-> TRUE, out |-> NullChunk, sourceReads |-> 0]
    ELSE readLoop(source, << >>)

\* createSnapshot(): a TextModelSnapshot over the snapshot of the buffer
CreateSnapshot ==
    /\ call = NoCall
    /\ \E chunks \in SourceChunks(text, MaxChunks) :
          call' = [op |-> "createSnapshot", source |-> chunks, eos |-> FALSE,
                   sourceChunks |-> chunks, chunks |-> << >>, nulls |-> 0,
                   sourceReads |-> 0]
    /\ ReadOnlyFrame

\* the read() calls made after read() has returned null
MaxNullReads == 2

\* read() on the snapshot, until it has returned null MaxNullReads times
Read ==
    /\ call.op \in { "createSnapshot", "read" }
    /\ call.nulls < MaxNullReads
    /\ LET r == read(call.source, call.eos)
       IN  call' = [op |-> "read", source |-> r.source, eos |-> r.eos, out |-> r.out,
                    sourceChunks |-> call.sourceChunks,
                    chunks |-> IF r.out.isNull THEN call.chunks
                               ELSE Append(call.chunks, r.out.chunk),
                    nulls |-> call.nulls + (IF r.out.isNull THEN 1 ELSE 0),
                    sourceReads |-> r.sourceReads]
    /\ ReadOnlyFrame

InitSnapshot ==
    InitWith({ [i \in 1..k |-> 97] : k \in 0..MaxSnapshotLen } \cup { TwoLines })

NextSnapshot == CreateSnapshot \/ Read

SpecSnapshot == InitSnapshot /\ [][NextSnapshot]_vars

\* C25: every chunk returned by TextModelSnapshot.read() is bounded in length by
\* the threshold, whatever the sizes of the chunks its source snapshot yields.
C25_ChunkBounded ==
    (call.op = "read" /\ ~call.out.isNull)
    => Len(call.out.chunk) <= ChunkThreshold

\* the longest chunk of the source
LongestSourceChunk ==
    LET lens == { Len(call.sourceChunks[i]) : i \in 1..Len(call.sourceChunks) } \cup { 0 }
    IN  CHOOSE n \in lens : \A m \in lens : m <= n

\* C25, what holds: a chunk stays below the threshold plus the longest source chunk,
\* and every chunk but the last one reaches the threshold
C25_ChunkAtLeastThreshold ==
    (call.op = "read" /\ ~call.out.isNull)
    => /\ Len(call.out.chunk) < ChunkThreshold + LongestSourceChunk
       /\ (~call.eos => Len(call.out.chunk) >= ChunkThreshold)

----------------------------------------------------------------------------
(* SpecAttach: editors call onBeforeAttached and onBeforeDetached.  The set *)
(* of editors that are attached is kept in `call`, next to whether the      *)
(* call fired onDidChangeAttached.                                         *)

\* onBeforeAttached / onBeforeDetached calls in a behaviour
MaxAttachCalls == 4

Editors == { 1, 2 }

\* the editors attached after the last call
AttachedEditors == IF "attached" \in DOMAIN call THEN call.attached ELSE {}

AttachCalls == IF "n" \in DOMAIN call THEN call.n ELSE 0

\* every detach so far came from an attached editor, every attach from a detached one
Paired == IF "paired" \in DOMAIN call THEN call.paired ELSE TRUE

\* isAttachedToEditor()
isAttachedToEditor(count) == count > 0

\* onBeforeAttached with a count that stops at 1
onBeforeAttached_capped(count) ==
    [attachedEditorCount |-> Min(1, count + 1), fires |-> (count + 1 = 1)]

\* onBeforeAttached()
onBeforeAttached(count) ==
    [attachedEditorCount |-> count + 1, fires |-> (count + 1 = 1)]

\* onBeforeDetached()
onBeforeDetached(count) ==
    [attachedEditorCount |-> count - 1, fires |-> (count - 1 = 0)]

AttachFrame ==
    UNCHANGED << text, decorations, lastDecorationId, cDeferredCnt, cDeferredEvent,
                 dDeferredCnt, dShouldFire, stack, running, views, emitted, scope,
                 dEmitted, steps, isDisposed, versionId, log >>

\* an editor attaches and calls onBeforeAttached
OnBeforeAttached ==
    /\ AttachCalls < MaxAttachCalls
    /\ \E e \in Editors :
          LET r == onBeforeAttached(attachedEditorCount)
          IN  /\ attachedEditorCount' = r.attachedEditorCount
              /\ call' = [op |-> "onBeforeAttached", n |-> AttachCalls + 1,
                          editor |-> e, fired |-> r.fires,
                          attachedBefore |-> AttachedEditors,
                          attached |-> AttachedEditors \cup { e },
                          paired |-> (Paired /\ e \notin AttachedEditors)]
    /\ AttachFrame

\* an editor detaches and calls onBeforeDetached
OnBeforeDetached ==
    /\ AttachCalls < MaxAttachCalls
    /\ \E e \in Editors :
          LET r == onBeforeDetached(attachedEditorCount)
          IN  /\ attachedEditorCount' = r.attachedEditorCount
              /\ call' = [op |-> "onBeforeDetached", n |-> AttachCalls + 1,
                          editor |-> e, fired |-> r.fires,
                          attachedBefore |-> AttachedEditors,
                          attached |-> AttachedEditors \ { e },
                          paired |-> (Paired /\ e \in AttachedEditors)]
    /\ AttachFrame

InitAttach == InitWith(DocsUpTo(1))

NextAttach == OnBeforeAttached \/ OnBeforeDetached

SpecAttach == InitAttach /\ [][NextAttach]_vars

\* the last call fired exactly if it attached the first editor or detached the last
FiredOnFirstAndLast ==
    call.op \in { "onBeforeAttached", "onBeforeDetached" }
    => (call.fired <=> ((call.attachedBefore = {}) # (call.attached = {})))

\* C27: over any sequence of onBeforeAttached and onBeforeDetached calls,
\* onDidChangeAttached fires exactly when the model becomes attached to its first
\* editor and when it is detached from its last editor, and isAttachedToEditor() is
\* true exactly while at least one editor is attached.
C27_Attached ==
    /\ FiredOnFirstAndLast
    /\ isAttachedToEditor(attachedEditorCount) <=> (AttachedEditors # {})

\* C27 for the sequences in which attach and detach calls are paired per editor
C27_AttachedPaired ==
    Paired => /\ FiredOnFirstAndLast
              /\ isAttachedToEditor(attachedEditorCount) <=> (AttachedEditors # {})

----------------------------------------------------------------------------
(* SpecNotify: applyEdits by an outside caller and by the content          *)
(* listeners while they run; log holds what happened, in order.            *)

InitNotify == InitWith(DocsUpTo(1))

NextNotify ==
    \/ EmitApplyEdits
    \/ ListenerApplyEdits
    \/ RunNext

SpecNotify == InitNotify /\ [][NextNotify]_vars

\* entry k of log is the call of listener l with event e
IsCall(k, l, e) ==
    log[k].kind = "listener" /\ log[k].listener = l /\ log[k].event = e

\* C29: for one applyEdits call that changes the document, notifications are
\* delivered only after the buffer is mutated and all decoration offsets are
\* repaired, and in this order: all fast content listeners, then all slow content
\* listeners, then the decorations-changed listeners.
C29_NotificationOrder ==
    /\ \A k \in 1..Len(log) :
          /\ log[k].kind = "listener" =>
                \E i \in 1..(k - 1) : log[i].kind = "mutated" /\ log[i].event = log[k].event
          /\ (log[k].kind = "listener" /\ log[k].listener = "slow") =>
                \E j \in 1..(k - 1) : IsCall(j, "fast", log[k].event)
          /\ log[k].kind = "decorations" =>
                /\ k = Len(log)
                /\ stack = << >>
                /\ \A i \in 1..(k - 1) :
                      log[i].kind = "mutated" =>
                         \E j \in (i + 1)..(k - 1), m \in (i + 1)..(k - 1) :
                            /\ j < m
                            /\ IsCall(j, "fast", log[i].event)
                            /\ IsCall(m, "slow", log[i].event)
    /\ (Idle /\ log # << >>) => log[Len(log)].kind = "decorations"

\* C29 witness: one applyEdits call by an outside caller has changed the document
\* and the fast listener, the slow listener and the decorations-changed listeners
\* have been called, in this order.
C29_Witness ==
    /\ Idle
    /\ Len(log) = 4
    /\ log[1].kind = "mutated"
    /\ IsCall(2, "fast", log[1].event)
    /\ IsCall(3, "slow", log[1].event)
    /\ log[4].kind = "decorations"
    /\ text = views["fast"]

\* the events entered in log with this kind, for this listener, in order
RECURSIVE EventsOf(_, _, _)
EventsOf(entries, kind, listener) ==
    IF entries = << >> THEN << >>
    ELSE (IF Head(entries).kind = kind /\ Head(entries).listener = listener
          THEN << Head(entries).event >> ELSE << >>)
         \o EventsOf(Tail(entries), kind, listener)

IsPrefix(a, b) == Len(a) <= Len(b) /\ a = SubSeq(b, 1, Len(a))

\* C30: when a content-changed listener itself calls applyEdits while an event is
\* being delivered, every listener (fast and slow) still receives the
\* content-changed events in the order in which the corresponding edits were
\* applied to the buffer.
C30_ListenersInOrder ==
    \A l \in Listeners :
        IsPrefix(EventsOf(log, "listener", l), EventsOf(log, "mutated", "none"))

\* C30 for the fast listener alone
C30_FastInOrder ==
    IsPrefix(EventsOf(log, "listener", "fast"), EventsOf(log, "mutated", "none"))

----------------------------------------------------------------------------
(* SpecScope: tracked ranges set outside every scope, deltaDecorations and *)
(* changeDecorations with callbacks that return or throw.                  *)

\* calls of one run of SpecScope
MaxScopeCalls == 2

scopeCalls == IF "n" \in DOMAIN call THEN call.n ELSE 0

\* onUnexpectedError(e): the error is handed to the error handler; nothing is thrown
\* to the caller
onUnexpectedError(e) == [reported |-> TRUE, thrown |-> "none"]

\* _changeDecorations without its try/catch: the callback's error leaves the method
\* before the accessor is invalidated
changeDecorationsReturn_uncaught(threw) ==
    [result |-> IF threw THEN "none" ELSE "value",
     propagated |-> IF threw THEN "error" ELSE "none",
     accessor |-> IF threw THEN changeAccessor ELSE invalidated(changeAccessor)]

\* _changeDecorations after the callback ran (threw: the callback threw "error"):
\* the catch block, the invalidation of the accessor and the returned value
\* ("null", or the callback's "value")
changeDecorationsReturn(threw) ==
    LET caught == IF threw THEN onUnexpectedError("error")
                  ELSE [reported |-> FALSE, thrown |-> "none"]
    IN  [result |-> IF threw THEN "null" ELSE "value",
         propagated |-> caught.thrown,
         accessor |-> IF caught.thrown = "none" THEN invalidated(changeAccessor)
                      ELSE changeAccessor]

\* the end of _setTrackedRange: no scope is opened and none is closed
scopeSetTrackedRangeReturns(r) ==
    /\ decorations' = r.decorations
    /\ lastDecorationId' = r.lastDecorationId
    /\ dShouldFire' = (dShouldFire \/ r.fires)
    /\ dEmitted' = 0
    /\ call' = [op |-> "_setTrackedRange", n |-> scopeCalls + 1,
                decorationsBefore |-> decorations,
                deferredCntBefore |-> dDeferredCnt,
                mutated |-> (r.decorations # decorations)]
    /\ UNCHANGED << text, cDeferredCnt, cDeferredEvent, dDeferredCnt, stack, running,
                    views, emitted, scope, steps, isDisposed, versionId,
                    attachedEditorCount, log >>

\* _setTrackedRange(id, newRange, newStickiness) by an outside caller, outside
\* every scope of the decorations emitter
ScopeSetTrackedRange ==
    /\ Idle
    /\ scopeCalls < MaxScopeCalls
    /\ \E id \in 0..MaxDeltaIds, hasRange \in BOOLEAN,
          newRange \in OffsetRanges(text, 0..Len(text)) :
          scopeSetTrackedRangeReturns(
              _setTrackedRange(text, decorations, lastDecorationId, id, hasRange,
                               newRange, NeverGrowsWhenTypingAtEdges))

\* the end of deltaDecorations: [] at once when there is nothing to do, else the
\* finally block closes the scope
scopeDeltaDecorationsReturns(oldDecorations, newDecorations, r, fires) ==
    /\ IF oldDecorations = << >> /\ newDecorations = << >>
       THEN /\ dEmitted' = 0
            /\ UNCHANGED << isDisposed, versionId, attachedEditorCount, log,
                            text, decorations, lastDecorationId, cDeferredCnt,
                            cDeferredEvent, dDeferredCnt, dShouldFire, stack,
                            running, views, emitted, scope, steps >>
       ELSE deltaDecorationsFinally(r, fires)
    /\ call' = [op |-> "deltaDecorations", n |-> scopeCalls + 1,
                decorationsBefore |-> decorations,
                deferredCntBefore |-> dDeferredCnt,
                mutated |-> ( \/ newDecorations # << >>
                              \/ \E i \in 1..Len(oldDecorations) :
                                    oldDecorations[i] \in DOMAIN decorations )]

\* deltaDecorations(oldDecorations, newDecorations) by an outside caller
ScopeDeltaDecorations ==
    /\ Idle
    /\ scopeCalls < MaxScopeCalls
    /\ \E oldDecorations \in UpToTwo(1..MaxDeltaIds),
          newDecorations \in { << >> } \cup { << d >> : d \in DeltaDescriptors(text) } :
          scopeDeltaDecorationsReturns(oldDecorations, newDecorations,
              _deltaDecorationsImpl(text, decorations, lastDecorationId, 0,
                                    oldDecorations, newDecorations, << >>),
              deltaDecorationsFires(decorations, oldDecorations, newDecorations))

\* the end of changeDecorations once the callback has returned or thrown: st is the
\* store and the emitter after the callback's calls, inScope tells whether one of
\* them reached a fire() of the emitter
scopeChangeDecorationsFinally(calls, threw, st, inScope, returned) ==
    LET dEnded == decorationsEndDeferredEmit(dDeferredCnt + 1, st.shouldFire) IN
    /\ decorations' = st.decorations
    /\ lastDecorationId' = st.lastDecorationId
    /\ dDeferredCnt' = dEnded.deferredCnt
    /\ dShouldFire' = dEnded.shouldFire
    /\ dEmitted' = st.emits + (IF dEnded.emit THEN 1 ELSE 0)
    /\ call' = [op |-> "changeDecorations", n |-> scopeCalls + 1,
                decorationsBefore |-> decorations,
                deferredCntBefore |-> dDeferredCnt,
                mutated |-> inScope,
                calls |-> calls, threw |-> threw,
                mutations |-> st.mutations,
                expected |-> st.decorations,
                result |-> returned.result,
                propagated |-> returned.propagated,
                accessor |-> returned.accessor]
    /\ UNCHANGED << isDisposed, versionId, attachedEditorCount, log, text, cDeferredCnt,
                    cDeferredEvent, stack, running, views, emitted, scope, steps >>

\* changeDecorations(callback) by an outside caller; the callback makes its calls
\* on the accessor and then returns a value or throws
ScopeChangeDecorations ==
    /\ Idle
    /\ scopeCalls < MaxScopeCalls
    /\ \E calls \in Callbacks(text, MaxAccessorCalls), threw \in BOOLEAN :
          scopeChangeDecorationsFinally(calls, threw,
              runCallback(text, 0,
                  [decorations |-> decorations, lastDecorationId |-> lastDecorationId,
                   shouldFire |-> dShouldFire, emits |-> 0, mutations |-> 0],
                  calls),
              runCallback(text, 0,
                  [decorations |-> decorations, lastDecorationId |-> lastDecorationId,
                   shouldFire |-> FALSE, emits |-> 0, mutations |-> 0],
                  calls).shouldFire,
              changeDecorationsReturn(threw))

InitScope == InitWith(DeltaDocs)

NextScope ==
    \/ ScopeSetTrackedRange
    \/ ScopeDeltaDecorations
    \/ ScopeChangeDecorations

SpecScope == InitScope /\ [][NextScope]_vars

\* the last call opened and closed an outermost scope of the decorations emitter
ClosedScope == call.op \in { "deltaDecorations", "changeDecorations" }

\* C32: a decorations-changed event is emitted only when an outermost scope closes
\* inside which at least one decoration was added, removed or changed; a scope in
\* which nothing was mutated emits no decorations-changed event, whatever
\* operations (_setTrackedRange included) ran before it.
C32_EmittedOnlyWhenMutated ==
    /\ dEmitted >= 1 => (ClosedScope /\ call.mutated)
    /\ (ClosedScope /\ ~call.mutated) => dEmitted = 0

\* C32 for the scopes that no _setTrackedRange call preceded (not the claim: a
\* cross-check)
C32_EmittedOnlyWhenMutatedNoTrackedRange ==
    [][ (call.op # "_setTrackedRange" /\ ~dShouldFire)
        => /\ dEmitted' >= 1 => call'.mutated
           /\ ~call'.mutated => dEmitted' = 0 ]_vars

\* C33: if the callback passed to changeDecorations throws, changeDecorations
\* returns null without propagating the error, the accessor is still invalidated,
\* the deferred-emit counter returns to its value before the call, and the
\* decoration mutations made before the throw remain applied and are notified by
\* one decorations-changed event.
C33_CallbackThrows ==
    (call.op = "changeDecorations" /\ call.threw)
    => /\ call.result = "null"
       /\ call.propagated = "none"
       /\ \A k \in DOMAIN call.accessor : invalidFunc(call.accessor[k])
       /\ dDeferredCnt = call.deferredCntBefore
       /\ decorations = call.expected
       /\ call.mutations >= 1 => dEmitted = 1

\* C33 witness: a callback added a decoration and threw; the decoration is in the
\* store, one event was emitted, null was returned and the accessor is invalid.
C33_Witness ==
    /\ call.op = "changeDecorations"
    /\ call.threw
    /\ Len(call.calls) = 1
    /\ call.calls[1].kind = "addDecoration"
    /\ call.mutations = 1
    /\ DOMAIN decorations # DOMAIN call.decorationsBefore
    /\ dEmitted = 1
    /\ call.result = "null"
    /\ call.propagated = "none"
    /\ invalidFunc(call.accessor["addDecoration"])
    /\ dDeferredCnt = call.deferredCntBefore

----------------------------------------------------------------------------
(* SpecSetValue: decorations of two owners, setValue by an outside caller, *)
(* dispose() with an onWillDispose listener that calls setValue or         *)
(* applyEdits, then applyEdits on the disposed document.                   *)

\* calls on the live document in one run of SpecSetValue
MaxSetValueCalls == 3

ModelRawFlush == [changeType |-> "Flush"]

\* _createContentChanged2(range, rangeOffset, rangeLength, text, isUndoing,
\* isRedoing, isFlush): one flat change
_createContentChanged2(range, rangeOffset, rangeLength, txt, isFlush) ==
    [changes |-> << [range |-> range, rangeOffset |-> rangeOffset,
                     rangeLength |-> rangeLength, text |-> txt] >>,
     isFlush |-> isFlush]

\* _emitContentChangedEvent that fires also while the model is being disposed
_emitContentChangedEvent_ungated(isDisposing, rawChange, change) ==
    [raw |-> rawChange, changes |-> change.changes, isFlush |-> change.isFlush,
     isNull |-> FALSE]

\* _emitContentChangedEvent(rawChange, change): the event handed to
\* this._eventEmitter.fire, NoEvent when the model is being disposed
_emitContentChangedEvent(isDisposing, rawChange, change) ==
    IF isDisposing THEN NoEvent
    ELSE [raw |-> rawChange, changes |-> change.changes, isFlush |-> change.isFlush,
          isNull |-> FALSE]

\* createTextBuffer(value): a buffer that holds value
createTextBuffer(value) == value

\* _setValueFromTextBuffer that keeps the decorations
_setValueFromTextBuffer_keepsDecorations(isDisposing, t, nodes, textBuffer) ==
    [text |-> textBuffer, decorations |-> nodes,
     event |-> _emitContentChangedEvent(isDisposing, << ModelRawFlush >>,
                   _createContentChanged2(
                       Range(1, 1, getLineCount(t), getLineMaxColumn(t, getLineCount(t))),
                       0, Len(t), textBuffer, TRUE))]

\* _setValueFromTextBuffer(textBuffer): the buffer is replaced, the decorations are
\* destroyed, one flush event is handed to _emitContentChangedEvent
_setValueFromTextBuffer(isDisposing, t, nodes, textBuffer) ==
    [text |-> textBuffer, decorations |-> << >>,
     event |-> _emitContentChangedEvent(isDisposing, << ModelRawFlush >>,
                   _createContentChanged2(
                       Range(1, 1, getLineCount(t), getLineMaxColumn(t, getLineCount(t))),
                       0, Len(t), textBuffer, TRUE))]

\* a value given to setValue: null, or a string
NullValue == [isNull |-> TRUE, text |-> << >>]

StringValue(txt) == [isNull |-> FALSE, text |-> txt]

\* setValue(value) on a model that is not disposed
setValue(isDisposing, t, nodes, value) ==
    IF value.isNull THEN [text |-> t, decorations |-> nodes, event |-> NoEvent]
    ELSE _setValueFromTextBuffer(isDisposing, t, nodes, createTextBuffer(value.text))

SetValueInputs == { NullValue } \cup { StringValue(txt) : txt \in DocsUpTo(1) }

\* the end of setValue by an outside caller: the event, if any, goes to the fast and
\* then to the slow listeners
setValueFinally(r) ==
    /\ text' = r.text
    /\ decorations' = r.decorations
    /\ emitted' = IF r.event.isNull THEN emitted ELSE r.event
    /\ log' = IF r.event.isNull THEN << >> ELSE listenerCalls(r.event)
    /\ dEmitted' = 0
    /\ UNCHANGED << lastDecorationId, cDeferredCnt, cDeferredEvent, dDeferredCnt,
                    dShouldFire, stack, running, views, scope, steps, isDisposed,
                    versionId, attachedEditorCount >>

setValueReturns(value, r) ==
    /\ setValueFinally(r)
    /\ call' = [op |-> "setValue", n |-> scopeCalls + 1, value |-> value,
                textBefore |-> text, decorationsBefore |-> decorations,
                emittedBefore |-> emitted]

\* setValue(value) by an outside caller on the live document
SetValue ==
    /\ Idle
    /\ ~isDisposed
    /\ scopeCalls < MaxSetValueCalls
    /\ \E value \in SetValueInputs :
          setValueReturns(value, setValue(FALSE, text, decorations, value))

\* deltaDecorations([], [d], ownerId) by an outside caller on the live document
SetValueDeltaDecorations ==
    /\ Idle
    /\ ~isDisposed
    /\ scopeCalls < MaxSetValueCalls
    /\ \E ownerId \in DeltaOwners, d \in DeltaDescriptors(text) :
          /\ deltaDecorationsFinally(
                 _deltaDecorationsImpl(text, decorations, lastDecorationId, ownerId,
                                       << >>, << d >>, << >>),
                 deltaDecorationsFires(decorations, << >>, << d >>))
          /\ call' = [op |-> "deltaDecorations", n |-> scopeCalls + 1,
                      ownerId |-> ownerId, decorationsBefore |-> decorations]

\* what an onWillDispose listener does: nothing, setValue, or applyEdits
WillDisposeCalls(t) ==
    { [kind |-> "none"] }
    \cup { [kind |-> "setValue", value |-> v] : v \in SetValueInputs }
    \cup { [kind |-> "applyEdits", operations |-> << o >>] : o \in EmitOps(t) }

\* the statements of dispose(), in order
disposeStatements ==
    << "_isDisposing = true", "_onWillDispose.fire()", "_isDisposed = true",
       "super.dispose()", "_isDisposing = false", "_buffer = emptyDisposedTextBuffer" >>

\* the onWillDispose listener: it reads isDisposed() and makes its call c; a call
\* on a disposed model throws ('Model is disposed!') and changes nothing
onWillDisposeListener(st, c) ==
    LET ran == [st EXCEPT !.listenerRan = TRUE, !.sawDisposed = st.isDisposed]
    IN  IF c.kind = "none" \/ _assertNotDisposed(st.isDisposed) THEN ran
        ELSE IF c.kind = "setValue"
        THEN LET r == setValue(st.isDisposing, st.text, st.decorations, c.value)
             IN  [ran EXCEPT !.text = r.text, !.decorations = r.decorations,
                             !.events = IF r.event.isNull THEN @ ELSE Append(@, r.event)]
        ELSE LET r == _doApplyEdits(st.text, st.decorations,
                                    _validateEditOperations(st.text, c.operations))
                 e == IF r.event.isNull THEN NoEvent
                      ELSE _emitContentChangedEvent(st.isDisposing, r.event.raw,
                               [changes |-> r.event.changes, isFlush |-> FALSE])
             IN  [ran EXCEPT !.text = r.text, !.decorations = r.decorations,
                             !.decorationsScope = TRUE,
                             !.decorationsFired = ~r.event.isNull,
                             !.events = IF e.isNull THEN @ ELSE Append(@, e)]

\* dispose(), statement after statement
RECURSIVE runDispose(_, _, _)
runDispose(statements, st, c) ==
    IF statements = << >> THEN st
    ELSE LET s == Head(statements)
             next == IF s = "_isDisposing = true" THEN [st EXCEPT !.isDisposing = TRUE]
                     ELSE IF s = "_onWillDispose.fire()" THEN onWillDisposeListener(st, c)
                     ELSE IF s = "_isDisposed = true" THEN [st EXCEPT !.isDisposed = TRUE]
                     ELSE IF s = "_isDisposing = false"
                     THEN [st EXCEPT !.isDisposing = FALSE]
                     ELSE IF s = "_buffer = emptyDisposedTextBuffer"
                     THEN [st EXCEPT !.text = << >>]
                     ELSE st
         IN  runDispose(Tail(statements), next, c)

\* the end of dispose(): st is the model after its last statement
disposeReturns(c, st) ==
    LET dEnded == IF st.decorationsScope
                  THEN decorationsEndDeferredEmit(dDeferredCnt + 1,
                                                  dShouldFire \/ st.decorationsFired)
                  ELSE [deferredCnt |-> dDeferredCnt, shouldFire |-> dShouldFire,
                        emit |-> FALSE]
    IN  /\ isDisposed' = st.isDisposed
        /\ text' = st.text
        /\ decorations' = st.decorations
        /\ emitted' = IF st.events = << >> THEN emitted ELSE st.events[Len(st.events)]
        /\ log' = IF st.events = << >> THEN << >> ELSE listenerCalls(st.events[1])
        /\ dDeferredCnt' = dEnded.deferredCnt
        /\ dShouldFire' = dEnded.shouldFire
        /\ dEmitted' = IF dEnded.emit THEN 1 ELSE 0
        /\ call' = [op |-> "dispose", n |-> scopeCalls, listener |-> c,
                    listenerRan |-> st.listenerRan, sawDisposed |-> st.sawDisposed,
                    textBefore |-> text, decorationsBefore |-> decorations,
                    events |-> st.events]
        /\ UNCHANGED << lastDecorationId, cDeferredCnt, cDeferredEvent, stack, running,
                        views, scope, steps, versionId, attachedEditorCount >>

\* dispose() by an outside caller, with one onWillDispose listener
SetValueDispose ==
    /\ Idle
    /\ ~isDisposed
    /\ \E c \in WillDisposeCalls(text) :
          disposeReturns(c,
              runDispose(disposeStatements,
                  [isDisposing |-> FALSE, isDisposed |-> isDisposed, text |-> text,
                   decorations |-> decorations, events |-> << >>,
                   decorationsScope |-> FALSE, decorationsFired |-> FALSE,
                   listenerRan |-> FALSE,
                   sawDisposed |-> FALSE],
                  c))

\* applyEdits with an operation that needs no validation, on the disposed document
SetValueDisposedApplyEdits ==
    /\ Idle
    /\ isDisposed
    /\ call.op = "dispose"
    /\ \E r \in OffsetRanges(text, 0..Len(text)), txt \in EmitTexts :
          /\ applyEdits(<< ValidAnnotatedEditOperation(r, txt, "false") >>)
          /\ call' = [op |-> "applyEdits", n |-> scopeCalls, disposedBefore |-> isDisposed,
                      emittedBefore |-> emitted]

InitSetValue == InitWith(DeltaDocs)

NextSetValue ==
    \/ SetValueDeltaDecorations
    \/ SetValue
    \/ SetValueDispose
    \/ SetValueDisposedApplyEdits

SpecSetValue == InitSetValue /\ [][NextSetValue]_vars

\* the listeners received exactly one content-changed event, e
EmittedOnce(e) ==
    \A l \in Listeners : EventsOf(log, "listener", l) = << e >>

\* the effects of setValue(v) of text t with decorations nodes, v not null: the
\* text is v, no id of nodes resolves, the events are one flush event
IsFlushOf(events, t, v) ==
    /\ Len(events) = 1
    /\ events[1].raw = << ModelRawFlush >>
    /\ events[1].isFlush
    /\ Len(events[1].changes) = 1
    /\ events[1].changes[1].rangeOffset = 0
    /\ events[1].changes[1].rangeLength = Len(t)
    /\ events[1].changes[1].text = v

NoneResolves(nodes) ==
    \A id \in DOMAIN nodes : getDecorationRange(text, decorations, id).range = NullRange

C36_DisposeSilent ==
    /\ call.op = "dispose" =>
          /\ call.listenerRan
          /\ ~call.sawDisposed
          /\ call.events = << >>
    /\ isDisposed =>
          /\ \A l \in Listeners : EventsOf(log, "listener", l) = << >>
          /\ call.op = "applyEdits" => emitted = call.emittedBefore

\* C36 witness: the onWillDispose listener called setValue("a") on a model that was
\* not yet disposed; the text was replaced and no event was emitted.
C36_Witness ==
    /\ call.op = "dispose"
    /\ call.listenerRan
    /\ ~call.sawDisposed
    /\ call.listener.kind = "setValue"
    /\ call.listener.value = StringValue(<< 97 >>)
    /\ call.textBefore = << >>
    /\ call.events = << >>
    /\ isDisposed

\* C36 witness for applyEdits: the listener inserted text during disposal
C36_WitnessApplyEdits ==
    /\ call.op = "dispose"
    /\ call.listener.kind = "applyEdits"
    /\ dEmitted = 1
    /\ call.events = << >>

----------------------------------------------------------------------------
(* SpecOwner: deltaDecorations and removeAllDecorationsWithOwnerId by two  *)
(* owners on one document.                                                 *)

\* calls of one run of SpecOwner
MaxOwnerCalls == 3

\* deltaDecorations(oldDecorations, newDecorations, ownerId) with at most one old id
\* and at most one new decoration, not both absent
OwnerDeltaDecorations ==
    /\ Idle
    /\ scopeCalls < MaxOwnerCalls
    /\ \E ownerId \in DeltaOwners,
          oldDecorations \in { << >> } \cup { << id >> : id \in 1..MaxDeltaIds },
          newDecorations \in { << >> } \cup { << d >> : d \in DeltaDescriptors(text) } :
          /\ ~(oldDecorations = << >> /\ newDecorations = << >>)
          /\ deltaDecorationsFinally(
                 _deltaDecorationsImpl(text, decorations, lastDecorationId, ownerId,
                                       oldDecorations, newDecorations, << >>),
                 deltaDecorationsFires(decorations, oldDecorations, newDecorations))
          /\ call' = [op |-> "deltaDecorations", n |-> scopeCalls + 1,
                      ownerId |-> ownerId, oldDecorations |-> oldDecorations,
                      decorationsBefore |-> decorations]

\* removeAllDecorationsWithOwnerId(ownerId) on the live document
OwnerRemoveAllDecorations ==
    /\ Idle
    /\ scopeCalls < MaxOwnerCalls
    /\ \E ownerId \in DeltaOwners :
          /\ decorations' = removeAllDecorationsWithOwnerId(isDisposed, decorations, ownerId)
          /\ call' = [op |-> "removeAllDecorationsWithOwnerId", n |-> scopeCalls + 1,
                      ownerId |-> ownerId, oldDecorations |-> << >>,
                      decorationsBefore |-> decorations]
    /\ dEmitted' = 0
    /\ UNCHANGED << text, lastDecorationId, cDeferredCnt, cDeferredEvent, dDeferredCnt,
                    dShouldFire, stack, running, views, emitted, scope, steps,
                    isDisposed, versionId, attachedEditorCount, log >>

InitOwner == InitWith(DeltaDocs)

NextOwner == OwnerDeltaDecorations \/ OwnerRemoveAllDecorations

SpecOwner == InitOwner /\ [][NextOwner]_vars

\* the ids that belonged to ownerId before the last call
OwnedBefore(ownerId) ==
    { id \in DOMAIN call.decorationsBefore : call.decorationsBefore[id].ownerId = ownerId }

\* the decorations of the other owners are there as they were before the last call
OthersUnchanged ==
    \A id \in DOMAIN call.decorationsBefore \ OwnedBefore(call.ownerId) :
        /\ id \in DOMAIN decorations
        /\ decorations[id] = call.decorationsBefore[id]

\* C35: removeAllDecorationsWithOwnerId(o) removes exactly the decorations whose
\* owner id is o and leaves the id, range, options and owner of every decoration of
\* any other owner unchanged; operations issued for one owner never change the set
\* of decorations of a different owner.
C35_OwnerFrame ==
    /\ call.op = "removeAllDecorationsWithOwnerId" =>
          /\ DOMAIN decorations = DOMAIN call.decorationsBefore \ OwnedBefore(call.ownerId)
          /\ OthersUnchanged
    /\ call.op = "deltaDecorations" => OthersUnchanged

\* C35 for removeAllDecorationsWithOwnerId alone, and for the deltaDecorations calls
\* that name no decoration of another owner
C35_OwnerFrameOwnIds ==
    /\ call.op = "removeAllDecorationsWithOwnerId" =>
          /\ DOMAIN decorations = DOMAIN call.decorationsBefore \ OwnedBefore(call.ownerId)
          /\ OthersUnchanged
    /\ ( /\ call.op = "deltaDecorations"
         /\ \A i \in 1..Len(call.oldDecorations) :
               call.oldDecorations[i] \in DOMAIN call.decorationsBefore
               => call.oldDecorations[i] \in OwnedBefore(call.ownerId) )
       => OthersUnchanged

\* removeAllDecorationsWithOwnerId removed a decoration and left one of the other owner
C35_RemovedOneLeftOne ==
    /\ call.op = "removeAllDecorationsWithOwnerId"
    /\ OwnedBefore(call.ownerId) # {}
    /\ DOMAIN decorations # {}
    /\ OthersUnchanged

----------------------------------------------------------------------------
(* TextModelSnapshot.read(): what its results add up to (SpecSnapshot). *)

\* the chunks joined, in order
RECURSIVE Joined(_)
Joined(chunks) ==
    IF chunks = << >> THEN << >> ELSE Head(chunks) \o Joined(Tail(chunks))

\* C37: for every finite sequence of chunks yielded by the source snapshot, the
\* concatenation of all non-null results of TextModelSnapshot.read() equals the
\* concatenation of the source chunks, no returned chunk is the empty string, and
\* once read() has returned null every later read() returns null without reading
\* the source again.
C37_ReadConcatenation ==
    call.op = "read"
    => /\ ~call.out.isNull => call.out.chunk # << >>
       /\ IsPrefix(Joined(call.chunks), Joined(call.sourceChunks))
       /\ call.out.isNull => Joined(call.chunks) = Joined(call.sourceChunks)
       /\ call.nulls >= 2 => (call.out.isNull /\ call.sourceReads = 0)

\* C37 witness: a source of three chunks, one of them empty, over the two-line
\* document was read to its end in more than one chunk, and read() was called again
\* after it had returned null.
C37_Witness ==
    /\ call.op = "read"
    /\ text = TwoLines
    /\ Len(call.sourceChunks) = 3
    /\ \E i \in 1..3 : call.sourceChunks[i] = << >>
    /\ Len(call.chunks) >= 2
    /\ Joined(call.chunks) = TwoLines
    /\ call.nulls = 2
    /\ call.out.isNull
    /\ call.sourceReads = 0

----------------------------------------------------------------------------
(* SpecView: one ViewModel over the document: setViewport, executeEdits    *)
(* with the cursor configuration read-only or not, setValue on the model,  *)
(* ViewModel.dispose().  The fields of the view model are carried by call. *)

\* setViewport, setValue and read-only executeEdits calls of one run of SpecView
MaxViewCalls == 3

\* executeEdits calls that reach applyEdits
MaxViewEdits == 1

ReadOnlyEditAttemptEvent == "ReadOnlyEditAttemptEvent"

\* the view model: _viewportStartLineTrackedRange (0 for null), the ids it was
\* given by _setTrackedRange so far, and whether dispose() was called
NewViewModel == [tracked |-> 0, issued |-> {}, disposed |-> FALSE, n |-> 0]

viewModel ==
    IF "tracked" \in DOMAIN call
    THEN [tracked |-> call.tracked, issued |-> call.issued, disposed |-> call.disposed,
          n |-> call.n]
    ELSE NewViewModel

\* what a call leaves in `call`: the view model vm and the facts of the call
viewCall(op, vm, facts) ==
    [op |-> op, tracked |-> vm.tracked, issued |-> vm.issued, disposed |-> vm.disposed,
     n |-> vm.n, facts |-> facts]

\* _withViewEventsCollector(callback): the callback is called once
_withViewEventsCollector == 1

\* _executeCursorEdit that does not read the cursor configuration
_executeCursorEdit_ignoresReadOnly(readOnly) ==
    [outgoing |-> << >>, callbacks |-> _withViewEventsCollector]

\* _executeCursorEdit(callback): the events emitted and the calls of callback
_executeCursorEdit(readOnly) ==
    IF readOnly THEN [outgoing |-> << ReadOnlyEditAttemptEvent >>, callbacks |-> 0]
    ELSE [outgoing |-> << >>, callbacks |-> _withViewEventsCollector]

\* ViewModel.executeEdits(source, edits, cursorStateComputer): the callback is
\* this._cursor.executeEdits(edits), which is this._model.applyEdits(edits)
executeEdits(readOnly, edits, r) ==
    /\ IF r.callbacks = 1
       THEN applyEdits(edits)
       ELSE UNCHANGED << text, decorations, lastDecorationId, cDeferredCnt,
                         cDeferredEvent, dDeferredCnt, dShouldFire, stack, running,
                         views, emitted, scope, dEmitted, steps, isDisposed, versionId,
                         attachedEditorCount, log >>
    /\ call' = viewCall("executeEdits",
                        [viewModel EXCEPT !.n = @ + (IF readOnly THEN 1 ELSE 0)],
                        [readOnly |-> readOnly, edits |-> edits,
                         outgoing |-> r.outgoing, applyEditsCalls |-> r.callbacks,
                         textBefore |-> text, decorationsBefore |-> decorations,
                         emittedBefore |-> emitted, stepsBefore |-> steps])

ViewExecuteEdits ==
    /\ Idle
    /\ ~viewModel.disposed
    /\ viewModel.n < MaxViewCalls
    /\ \E readOnly \in BOOLEAN, o \in EmitOps(text) :
          /\ ~readOnly => steps < MaxViewEdits
          /\ executeEdits(readOnly, << o >>, _executeCursorEdit(readOnly))

\* the end of setViewport: the id returned by _setTrackedRange is kept
setViewportReturns(startLineNumber, r) ==
    /\ decorations' = r.decorations
    /\ lastDecorationId' = r.lastDecorationId
    /\ dShouldFire' = (dShouldFire \/ r.fires)
    /\ call' = viewCall("setViewport",
                        [viewModel EXCEPT !.tracked = r.result[1],
                                          !.issued = @ \cup { r.result[1] },
                                          !.n = @ + 1],
                        [startLineNumber |-> startLineNumber,
                         trackedBefore |-> viewModel.tracked,
                         decorationsBefore |-> decorations])
    /\ UNCHANGED << text, cDeferredCnt, cDeferredEvent, dDeferredCnt, stack, running,
                    views, emitted, scope, dEmitted, steps, isDisposed, versionId,
                    attachedEditorCount, log >>

\* ViewModel.setViewport(startLineNumber, endLineNumber, centeredLineNumber); the
\* view position of the line start is converted to the same model position
ViewSetViewport ==
    /\ Idle
    /\ ~viewModel.disposed
    /\ viewModel.n < MaxViewCalls
    /\ \E startLineNumber \in 1..getLineCount(text) :
          setViewportReturns(startLineNumber,
              _setTrackedRange(text, decorations, lastDecorationId, viewModel.tracked,
                               TRUE, Range(startLineNumber, 1, startLineNumber, 1),
                               NeverGrowsWhenTypingAtEdges))

\* the values given to setValue in SpecView
ViewValues == { NullValue } \cup { StringValue(txt) : txt \in DeltaDocs \cup { << 10 >> } }

\* setValue(value) on the model, by an outside caller
ViewSetValue ==
    /\ Idle
    /\ ~viewModel.disposed
    /\ viewModel.n < MaxViewCalls
    /\ \E value \in ViewValues :
          /\ setValueFinally(setValue(FALSE, text, decorations, value))
          /\ call' = viewCall("setValue", [viewModel EXCEPT !.n = @ + 1],
                              [value |-> value, decorationsBefore |-> decorations])

\* the end of ViewModel.dispose(): the tracked range is given up
viewDisposeReturns(r) ==
    /\ decorations' = r.decorations
    /\ lastDecorationId' = r.lastDecorationId
    /\ dShouldFire' = (dShouldFire \/ r.fires)
    /\ call' = viewCall("ViewModel.dispose",
                        [viewModel EXCEPT !.tracked = 0, !.disposed = TRUE],
                        [trackedBefore |-> viewModel.tracked,
                         decorationsBefore |-> decorations])
    /\ UNCHANGED << text, cDeferredCnt, cDeferredEvent, dDeferredCnt, stack, running,
                    views, emitted, scope, dEmitted, steps, isDisposed, versionId,
                    attachedEditorCount, log >>

\* ViewModel.dispose()
ViewDispose ==
    /\ Idle
    /\ ~viewModel.disposed
    /\ viewDisposeReturns(
           _setTrackedRange(text, decorations, lastDecorationId, viewModel.tracked,
                            FALSE, NullRange, NeverGrowsWhenTypingAtEdges))

InitView == InitWith(DeltaDocs)

NextView ==
    \/ ViewSetViewport
    \/ ViewExecuteEdits
    \/ ViewSetValue
    \/ ViewDispose
    \/ RunNext

SpecView == InitView /\ [][NextView]_vars

C38_WitnessEdited ==
    /\ call.op = "executeEdits"
    /\ ~call.facts.readOnly
    /\ text # call.facts.textBefore
    /\ call.facts.applyEditsCalls = 1

\* the tracked ranges given to the view model that are live in the model
LiveTrackedRanges == viewModel.issued \cap DOMAIN decorations

\* C39: across any sequence of ViewModel.setViewport calls, model edits and model
\* setValue calls, a view model owns at most one live tracked range in the model
\* for its viewport start, and after ViewModel.dispose() that tracked range no
\* longer exists in the model.
C39_OneTrackedRange ==
    /\ Cardinality(LiveTrackedRanges) <= 1
    /\ LiveTrackedRanges \subseteq { viewModel.tracked }
    /\ viewModel.disposed => LiveTrackedRanges = {}

\* C39 witness: the view model was given a second id after setValue had destroyed
\* its first tracked range, an edit went through, and dispose() removed the range.
C39_Witness ==
    /\ call.op = "ViewModel.dispose"
    /\ Cardinality(viewModel.issued) >= 2
    /\ call.facts.trackedBefore \in DOMAIN call.facts.decorationsBefore
    /\ steps >= 1
    /\ decorations = << >>

====
